---- MODULE Spec2Model ----
(***************************************************************************)
(* A model of the market-making agent's trading path.                      *)
(*                                                                         *)
(*  SpecWS : WebSocketTradingClient (src/src/websocket_trading_client.cpp) *)
(*           one client object, one session: connect(), the callbacks of   *)
(*           the event-loop thread, disconnect(), and caller threads in    *)
(*           send_request_and_wait().                                      *)
(*  SpecOM : OrderManager (src/src/order_manager.cpp) driven by the        *)
(*           supervisor's single worker thread through                     *)
(*           update_orders_if_needed(), and cancel_all_active_orders() at  *)
(*           the manager's destruction.                                    *)
(*  SpecID : OrderManager::generate_client_order_id, called by the two     *)
(*           placement threads of each cycle.                              *)
(*  SpecQuote : the prices place_market_maker_orders computes and hands to *)
(*           the exchange, with the OrderValidator's rules                 *)
(*           (src/src/order_validator.cpp) as operators.                   *)
(*  SpecMM : MarketMakerBotV2 (src/src/market_maker.cpp): book updates,    *)
(*           the mid and the main loop.                                    *)
(*  SpecRL : RateLimiter (src/src/rate_limiter.cpp): one bucket and its    *)
(*           caller.                                                       *)
(*  SpecSP : the adapters' signed order operations and                     *)
(*           BinanceExchange::enforce_rate_limit.                          *)
(*  SpecMD : WebSocketClient (src/src/websocket_client.cpp), the market-   *)
(*           data transport: worker, heartbeat and reconnect threads;      *)
(*           SpecMDLive adds the fairness of its threads.                  *)
(*  SpecTR : the trading client with its reconnect thread; SpecTRLive adds *)
(*           the fairness of that thread.                                  *)
(*  SpecSD : MarketMakerBotV2's shutdown: the signal handler, stop() and   *)
(*           the destruction of the order manager.                         *)
(*  SpecLat : the time stamps behind the latency metrics.                  *)
(*  SpecBK : the order books the adapters parse and hand on.               *)
(*                                                                         *)
(* Each specification leaves the other subsystems' variables at their      *)
(* initial values.                                                         *)
(***************************************************************************)
EXTENDS Integers, FiniteSets, Sequences, TLC

(***************************************************************************)
(* Bounds of the model.                                                    *)
(***************************************************************************)
\* requests created over the life of the client object
MaxRequests == 3

\* the steady clock runs from the manager's construction to MaxTime (ms)
MaxTime == 400
\* granularity of the clock (ms)
TickMs == 50

\* client_order_ids generated over the session
MaxIds == 4
\* the wall clock runs from 0 to MaxClock
MaxClock == 3

\* book updates received over the session
MaxBookUpdates == 4

\* the limiter's clock advances in steps of RLTickMs for RLBusyMs, and
\* MaxQuietMinutes times by a whole cleanup horizon
RLTickMs == 500
RLBusyMs == 2000
MaxQuietMinutes == 1
\* the arguments the bucket is constructed with
max_requests_per_second_ == 2
burst_size_ == 3

\* the adapter's steady clock runs from SpStartMs to MaxSpTime in steps of
\* SpTickMs; MaxCalls network calls are started
SpStartMs == 100
MaxSpTime == 300
SpTickMs == 50
MaxCalls == 3

\* losses of the market-data connection over the session
MaxLosses == 2

\* the cycle clock runs from LatStartNs to MaxLatTime (ns) in steps of
\* LatTickNs; MaxLatCycles cycles record metrics
LatStartNs == 700
LatTickNs == 700
MaxLatTime == 4900
MaxLatCycles == 2

\* a depth payload carries up to MaxLevels levels a side; MaxPayloads
\* payloads are processed
MaxLevels == 2
MaxPayloads == 2

\* the threads that may be inside send_request_and_wait at once: the order
\* manager runs its two cancels, and its two places, on two parallel threads
Callers == {"t1", "t2"}
Ids == 1..MaxRequests

(***************************************************************************)
(* Program constants.  Prices are counted in units of 0.00001, the absolute*)
(* difference should_update_orders compares with.                          *)
(***************************************************************************)
\* Config::order_update_cooldown (ms)
order_update_cooldown == 100
\* the timeout of each cancel wait in place_market_maker_orders (ms)
CancelTimeoutMs == 100
\* 1 / PRICE_CHANGE_THRESHOLD (0.0001)
ThresholdInv == 10000
\* ExchangeConfig::max_requests_per_second
exchange_max_requests_per_second == 10
\* mid prices the supervisor hands over: 1.00000, 1.00005, 1.00011
Mids == {100000, 100005, 100011}
Sides == {"bid", "ask"}

VARIABLES
    \* ---- WebSocketTradingClient ----
    connected_,           \* std::atomic<bool> connected_
    running_,             \* std::atomic<bool> running_
    pending_requests_,    \* keys of the pending-request table
    request_id_counter_,  \* std::atomic<uint64_t> request_id_counter_
    waiting,              \* PendingRequest::waiting, per request id
    promise,              \* PendingRequest::promise: "unset", "response", "closed"
    set_calls,            \* number of promise.set_value calls, per request id
    total_requests,       \* metrics_.total_requests
    sess,                 \* the library's connection: none, connecting, open,
                          \* closing, closed, failed
    loop_alive,           \* ws_thread_ is running the event loop
    wire,                 \* ids of requests the venue has received and not answered
    dpc,                  \* position of the thread inside disconnect()
    was_connected,        \* disconnect()'s local was_connected
    cpc,                  \* position of each caller in send_request_and_wait
    rid,                  \* each caller's request_id
    ret,                  \* how each caller's last call returned
    \* ---- OrderManager ----
    active_order,         \* active_bid_order_ / active_ask_order_: 0 (null) or order id
    last_mid_price_,      \* std::atomic<double> last_mid_price_
    last_order_update_,   \* time of the last completed cycle (ms)
    failed_orders,        \* metrics_.failed_orders
    successful_orders,    \* metrics_.successful_orders
    total_orders,         \* metrics_.total_orders
    now,                  \* steady clock (ms)
    wpc,                  \* position of the worker thread in the manager
    new_mid_price,        \* argument of the current update_orders_if_needed call
    order_to_cancel,      \* locals bid_order_to_cancel / ask_order_to_cancel
    cancel_task,          \* the two std::async cancel tasks
    cancel_wait,          \* result of wait_for on each cancel future
    place_thread,         \* bid_thread / ask_thread
    success,              \* locals bid_success / ask_success
    cancel_requests,      \* order ids for which the exchange got a cancel call
    next_order_id,        \* the venue's next order id
    cancel_result,        \* value held by each cancel future: none, ok, failed
    cancel_all_ret,       \* cancel_all_active_orders' local success at its return
    \* ---- observation of the manager's calls (not program state) ----
    delivered_at,         \* clock reading (should_update_orders' now) at which
                          \* the manager evaluated the last delivered update
    triggered_at          \* delivered_at of the last update that started a
                          \* cancel/place sequence, -1 before the first
VARIABLES
    \* ---- OrderManager::generate_client_order_id ----
    system_clock,         \* std::chrono::system_clock reading (wall clock)
    id_thread,            \* the bid / ask placement thread of the current cycle
    client_order_ids      \* the client_order_ids generated so far, in order
VARIABLES
    \* ---- OrderManager: price calculation and placement of one call ----
    spread_percentage,    \* config_.spread_percentage in percent, 0 before load
    quote_pc,             \* position in place_market_maker_orders
    mid_price,            \* its argument mid_price (price units)
    bid_price,            \* local bid_price (price units)
    ask_price,            \* local ask_price (price units)
    placed                \* <<side, price>> of the place_limit_order calls made
                          \* to the exchange in the current call
VARIABLES
    \* ---- MarketMakerBotV2: market data and the main loop ----
    current_orderbook_,   \* [bids, asks]: the price levels of each side
    current_mid_price_,   \* std::atomic<double> current_mid_price_ (mid units)
    price_changed_,       \* std::atomic<bool> price_changed_
    loop_pc,              \* position of main_thread_ in main_loop
    reprice_mid,          \* mid of the last update_orders_if_needed call
    \* ---- observation of the notifications (not program state) ----
    book_updates,         \* number of book updates received
    notified,             \* the last book update emitted a price-change
                          \* notification
    published_mid         \* mid carried by the last notification, 0 if none
VARIABLES
    \* ---- RateLimiter (one bucket) and its caller ----
    request_times_,       \* std::deque request_times_ (ms), oldest first
    request_count_,       \* std::atomic<int> request_count_
    rl_now,               \* steady clock read by the limiter (ms)
    rl_pc,                \* position of the caller: idle, l30 (can_request
                          \* has returned)
    admitted              \* value returned by the last can_request call

wsVars == <<connected_, running_, pending_requests_, request_id_counter_, waiting,
            promise, set_calls, total_requests, sess, loop_alive, wire, dpc,
            was_connected, cpc, rid, ret>>

omVars == <<active_order, last_mid_price_, last_order_update_, failed_orders,
            successful_orders, total_orders, now, wpc, new_mid_price, order_to_cancel,
            cancel_task, cancel_wait, place_thread, success, cancel_requests,
            next_order_id, cancel_result, cancel_all_ret, delivered_at, triggered_at>>

idVars == <<system_clock, id_thread, client_order_ids>>

quoteVars == <<spread_percentage, quote_pc, mid_price, bid_price, ask_price, placed>>

mmVars == <<current_orderbook_, current_mid_price_, price_changed_, loop_pc,
            reprice_mid, book_updates, notified, published_mid>>

rlVars == <<request_times_, request_count_, rl_now, rl_pc, admitted>>

VARIABLES
    \* ---- the exchange adapter's signed order operations ----
    adapter,              \* the IExchange implementation in use: "binance"
                          \* (BinanceExchange, HTTP) or "stream"
                          \* (WebSocketTradingAdapter)
    sp_now,               \* steady clock (ms)
    last_request_time_,   \* BinanceExchange::last_request_time_ (ms)
    rate_limit_mutex_,    \* holder of BinanceExchange::rate_limit_mutex_
    sp_pc,                \* position of each calling thread: idle, l645,
                          \* l657 (asleep in enforce_rate_limit), l662, call
    sp_op,                \* the operation each thread is in
    sp_wake,              \* end of each thread's sleep_for (ms)
    call_starts           \* the network calls started so far: [op, at]

spVars == <<adapter, sp_now, last_request_time_, rate_limit_mutex_, sp_pc, sp_op,
            sp_wake, call_starts>>

VARIABLES
    \* ---- WebSocketClient (market data) and the process around it ----
    max_reconnect_attempts, \* Config::max_reconnect_attempts, 0 before loading
    reconnect_delay,      \* Config::reconnect_delay (ms), 0 before loading
    md_connected_,        \* WebSocketClient::connected_
    worker_pc,            \* run_worker thread: none, l325 (reading), l451
                          \* (after the loop), exited
    heartbeat_pc,         \* run_heartbeat thread: none, running, exited
    reconnect_pc,         \* latest reconnect thread: none, l465, l470 (asleep),
                          \* l472 (in connect), l478, l212 (in connect, joining
                          \* the old heartbeat thread), exited
    attempts,             \* the reconnect thread's local attempts
    slept,                \* duration of the reconnect thread's latest sleep
    loss,                 \* cause of the latest loss of the connection
    losses,               \* number of losses so far
    connect_attempts,     \* connect() calls made since the latest loss
    process_state         \* start, running, terminated (main returned or
                          \* exit was called), crashed

mdVars == <<max_reconnect_attempts, reconnect_delay, md_connected_, worker_pc,
            heartbeat_pc, reconnect_pc, attempts, slept, loss, losses,
            connect_attempts, process_state>>

VARIABLES
    \* ---- WebSocketTradingClient: its reconnect thread ----
    reconnect_thread_     \* position of handle_reconnect: none (not started),
                          \* l203, l205 (asleep for reconnect_delay_), l220
                          \* (asleep for one second), exited

trVars == <<reconnect_thread_>>

VARIABLES
    \* ---- MarketMakerBotV2: shutdown ----
    bot_running_,         \* MarketMakerBotV2::running_
    should_exit,          \* main.cpp's should_exit
    handler_on,           \* the thread the signal handler runs on: none (no
                          \* signal yet), main, worker, other
    bot_worker,           \* main_thread_ in main_loop: l143 (loop condition),
                          \* l152 (after the wait), l158 (in a reprice cycle),
                          \* exited
    main_thread_joinable, \* main_thread_.joinable()
    stop_pc,              \* position in stop() of the handler and of main:
                          \* idle, l122, l128, l133, joining, returned, threw
    trading_open,         \* the stream adapter's trading client is connected
    believed_resting,     \* the legs the order manager holds as active
    cancels_sent,         \* the legs a cancel request was sent for
    exit_state            \* running, exited (static destructors have run),
                          \* aborted (std::terminate)

sdVars == <<bot_running_, should_exit, handler_on, bot_worker, main_thread_joinable,
            stop_pc, trading_open, believed_resting, cancels_sent, exit_state>>

VARIABLES
    \* ---- the time stamps of a reprice cycle ----
    lat_now,              \* steady clock (ns)
    last_orderbook_time_, \* MarketMakerBotV2::last_orderbook_time_
    lat_pc,               \* the worker: idle, l186 (orderbook_time read),
                          \* l30 (start_time taken)
    orderbook_time,       \* check_and_update_orders' local, passed down
    start_time,           \* place_market_maker_orders' local
    execution_latency_us, \* value of the latest update_latency call, -1 if none
    reaction_latency_us,  \* value of the latest update_reaction_latency call
    lat_cycles            \* cycles that recorded metrics

latVars == <<lat_now, last_orderbook_time_, lat_pc, orderbook_time, start_time,
             execution_latency_us, reaction_latency_us, lat_cycles>>

VARIABLES
    \* ---- the adapters' order book parsing ----
    payload,              \* the latest depth payload: [bids, asks], price levels
                          \* in the order of the message
    handed_orderbook,     \* the OrderBook passed to orderbook_handler_
    handed_mid2,          \* twice the mid update_mid_price computes from it,
                          \* 0 if a side is empty
    payloads              \* number of payloads processed

bkVars == <<payload, handed_orderbook, handed_mid2, payloads>>

\* Several threads sharing one RateLimiter bucket:
\*   caller_pc         where each thread is: "idle", or "l30" once its
\*                     can_request has returned
\*   caller_admitted   what can_request returned to each thread
VARIABLES caller_pc, caller_admitted

rcVars == <<caller_pc, caller_admitted>>

VARIABLES
    \* ---- the decoder thread and the worker thread of MarketMakerBotV2 ----
    mm_running_,       \* MarketMakerBotV2::running_
    decoder_pc,        \* decoder: idle, l201 (book and time stored, mid not yet)
    updates,           \* book updates handed to handle_orderbook_update so far
    book_mid,          \* (best_bid + best_ask) / 2 of current_orderbook_, 0 when
                       \* a side is empty
    time_of,           \* the update whose receive time last_orderbook_time_ holds
    mid_now,           \* current_mid_price_
    mid_of,            \* the update whose mid current_mid_price_ holds
    changed_flag,      \* price_changed_
    last_notified,     \* the update of the latest notification, 0 if none
    notified_eval,     \* evaluations counted when that notification was raised
    notified_at,       \* where the worker was when that notification was raised
    main_pc,           \* worker: l143, l154, l156, l172, l181, l186, exited
    loop_mid,          \* main_loop's local mid_price
    loop_mid_of,       \* the update that local came from
    passed_mid,        \* check_and_update_orders' local mid_price
    passed_mid_of,     \* the update that mid came from
    passed_time_of,    \* the update the local orderbook_time came from
    evaluated_mid_of,  \* the update of the mid handed to update_orders_if_needed
    evaluations        \* calls of update_orders_if_needed so far

ntVars == <<mm_running_, decoder_pc, updates, book_mid, time_of, mid_now, mid_of,
            changed_flag, last_notified, notified_eval, notified_at, main_pc,
            loop_mid, loop_mid_of, passed_mid, passed_mid_of, passed_time_of, evaluated_mid_of,
            evaluations>>

VARIABLES
    \* ---- the frames of the market-data stream ----
    server_sent,       \* the text messages the server has sent, in order
    socket_bytes,      \* their frames' bytes that no SSL_read has returned yet
    accumulated_data,  \* run_worker's accumulated_data
    handled            \* what message_handler_ was called with, in order

frVars == <<server_sent, socket_bytes, accumulated_data, handled>>

VARIABLES
    \* ---- the numbers of a place request on their way to the venue ----
    symbol_price_precision,     \* price decimals the venue declares for the symbol
    symbol_quantity_precision,  \* quantity decimals the venue declares
    formatted_price,      \* the price the adapter hands to its transport
    formatted_qty,        \* the quantity the adapter hands to its transport
    wire_price,           \* the "price" parameter sent: [decimals, units]
    wire_quantity,        \* the "quantity" parameter sent: [decimals, units]
    wire_orders           \* place requests sent so far

wireVars == <<symbol_price_precision, symbol_quantity_precision, formatted_price,
              formatted_qty, wire_price, wire_quantity, wire_orders>>

VARIABLES
    \* ---- modify_order of the adapters ----
    original_side,     \* side of the order that rests at the venue, "none" if none
    original_price,    \* its price
    side_lookup,       \* how the latest modify learned the side: "found",
                       \* "not_listed", "failed", or "no_lookup"
    replacement,       \* the place request of the latest modify: [side, price],
                       \* side "none" when none was sent
    modifies           \* modify_order calls so far

modVars == <<original_side, original_price, side_lookup, replacement, modifies>>

VARIABLES
    \* ---- LatencyMetrics ----
    metrics_total_orders,     \* LatencyMetrics::total_orders
    avg_order_latency_ms,     \* a fraction [num, den] of microseconds
    avg_reaction_latency_ms,  \* a fraction [num, den] of microseconds
    max_reaction_latency_ms,  \* microseconds
    min_reaction_latency_ms,  \* microseconds
    recorded_reactions        \* the reaction latencies recorded so far, in order

avgVars == <<metrics_total_orders, avg_order_latency_ms, avg_reaction_latency_ms,
             max_reaction_latency_ms, min_reaction_latency_ms, recorded_reactions>>

\* what the actions of one subsystem leave alone
notWsVars == <<omVars, idVars, quoteVars, mmVars, rlVars, spVars, mdVars, trVars, sdVars, latVars, bkVars, rcVars, ntVars, frVars, wireVars, modVars, avgVars>>
notOmVars == <<wsVars, idVars, quoteVars, mmVars, rlVars, spVars, mdVars, trVars, sdVars, latVars, bkVars, rcVars, ntVars, frVars, wireVars, modVars, avgVars>>
notIdVars == <<wsVars, omVars, quoteVars, mmVars, rlVars, spVars, mdVars, trVars, sdVars, latVars, bkVars, rcVars, ntVars, frVars, wireVars, modVars, avgVars>>
notQuoteVars == <<wsVars, omVars, idVars, mmVars, rlVars, spVars, mdVars, trVars, sdVars, latVars, bkVars, rcVars, ntVars, frVars, wireVars, modVars, avgVars>>
notMmVars == <<wsVars, omVars, idVars, quoteVars, rlVars, spVars, mdVars, trVars, sdVars, latVars, bkVars, rcVars, ntVars, frVars, wireVars, modVars, avgVars>>
notRlVars == <<wsVars, omVars, idVars, quoteVars, mmVars, spVars, mdVars, trVars, sdVars, latVars, bkVars, rcVars, ntVars, frVars, wireVars, modVars, avgVars>>

notSpVars == <<wsVars, omVars, idVars, quoteVars, mmVars, rlVars, mdVars, trVars, sdVars, latVars, bkVars, rcVars, ntVars, frVars, wireVars, modVars, avgVars>>

notMdVars == <<wsVars, omVars, idVars, quoteVars, mmVars, rlVars, spVars, trVars, sdVars, latVars, bkVars, rcVars, ntVars, frVars, wireVars, modVars, avgVars>>

notTrVars == <<wsVars, omVars, idVars, quoteVars, mmVars, rlVars, spVars, mdVars, sdVars, latVars, bkVars, rcVars, ntVars, frVars, wireVars, modVars, avgVars>>
notWsTrVars == <<omVars, idVars, quoteVars, mmVars, rlVars, spVars, mdVars, sdVars, latVars, bkVars, rcVars, ntVars, frVars, wireVars, modVars, avgVars>>

notSdVars == <<wsVars, omVars, idVars, quoteVars, mmVars, rlVars, spVars, mdVars, trVars, latVars, bkVars, rcVars, ntVars, frVars, wireVars, modVars, avgVars>>

notLatVars == <<wsVars, omVars, idVars, quoteVars, mmVars, rlVars, spVars, mdVars, trVars, sdVars, bkVars, rcVars, ntVars, frVars, wireVars, modVars, avgVars>>

notBkVars == <<wsVars, omVars, idVars, quoteVars, mmVars, rlVars, spVars, mdVars, trVars, sdVars, latVars, rcVars, ntVars, frVars, wireVars, modVars, avgVars>>

notRcVars == <<wsVars, omVars, idVars, quoteVars, mmVars, rlVars, spVars, mdVars, trVars, sdVars, latVars, bkVars, ntVars, frVars, wireVars, modVars, avgVars>>

notRlRcVars == <<wsVars, omVars, idVars, quoteVars, mmVars, spVars, mdVars, trVars, sdVars, latVars, bkVars, ntVars, frVars, wireVars, modVars, avgVars>>

notNtVars == <<wsVars, omVars, idVars, quoteVars, mmVars, rlVars, spVars, mdVars, trVars, sdVars, latVars, bkVars, rcVars, frVars, wireVars, modVars, avgVars>>

notFrVars == <<wsVars, omVars, idVars, quoteVars, mmVars, rlVars, spVars, mdVars, trVars, sdVars, latVars, bkVars, rcVars, ntVars, wireVars, modVars, avgVars>>

notWireVars == <<wsVars, omVars, idVars, quoteVars, mmVars, rlVars, spVars, mdVars, trVars, sdVars, latVars, bkVars, rcVars, ntVars, frVars, modVars, avgVars>>

notModVars == <<wsVars, omVars, idVars, quoteVars, mmVars, rlVars, spVars, mdVars, trVars, sdVars, latVars, bkVars, rcVars, ntVars, frVars, wireVars, avgVars>>

notAvgVars == <<wsVars, omVars, idVars, quoteVars, mmVars, rlVars, spVars, mdVars, trVars, sdVars, latVars, bkVars, rcVars, ntVars, frVars, wireVars, modVars>>

vars == <<wsVars, omVars, idVars, quoteVars, mmVars, rlVars, spVars, mdVars, trVars, sdVars, latVars, bkVars, rcVars, ntVars, frVars, wireVars, modVars, avgVars>>

(***************************************************************************)
(* WebSocketTradingClient                                                  *)
(***************************************************************************)
WSInit ==
    /\ connected_ = FALSE
    /\ running_ = FALSE
    /\ pending_requests_ = {}
    /\ request_id_counter_ = 1
    /\ waiting = [i \in Ids |-> TRUE]
    /\ promise = [i \in Ids |-> "unset"]
    /\ set_calls = [i \in Ids |-> 0]
    /\ total_requests = 0
    /\ sess = "none"
    /\ loop_alive = FALSE
    /\ wire = {}
    /\ dpc = "idle"
    /\ was_connected = FALSE
    /\ cpc = [c \in Callers |-> "idle"]
    /\ rid = [c \in Callers |-> 0]
    /\ ret = [c \in Callers |-> "none"]

\* promise.set_value(v) on request i
SetValue(i, v) ==
    /\ promise' = [promise EXCEPT ![i] = v]
    /\ set_calls' = [set_calls EXCEPT ![i] = @ + 1]

\* connect(): starts the session and the event-loop thread
Connect ==
    /\ UNCHANGED notWsVars
    /\ sess = "none"
    /\ dpc = "idle"
    /\ running_' = TRUE
    /\ loop_alive' = TRUE
    /\ sess' = "connecting"
    /\ UNCHANGED <<connected_, pending_requests_, request_id_counter_, waiting, promise,
                   set_calls, total_requests, wire, dpc, was_connected, cpc, rid, ret>>

on_open ==
    /\ UNCHANGED notWsVars
    /\ loop_alive
    /\ sess = "connecting"
    /\ sess' = "open"
    /\ connected_' = TRUE
    /\ UNCHANGED <<running_, pending_requests_, request_id_counter_, waiting, promise,
                   set_calls, total_requests, loop_alive, wire, dpc, was_connected,
                   cpc, rid, ret>>

\* the stream is closed (by the venue, or the close handshake completes)
on_close ==
    /\ UNCHANGED notWsVars
    /\ loop_alive
    /\ sess \in {"open", "closing"}
    /\ sess' = "closed"
    /\ connected_' = FALSE
    /\ UNCHANGED <<running_, pending_requests_, request_id_counter_, waiting, promise,
                   set_calls, total_requests, loop_alive, wire, dpc, was_connected,
                   cpc, rid, ret>>

\* the connection attempt fails
on_fail ==
    /\ UNCHANGED notWsVars
    /\ loop_alive
    /\ sess = "connecting"
    /\ sess' = "failed"
    /\ connected_' = FALSE
    /\ UNCHANGED <<running_, pending_requests_, request_id_counter_, waiting, promise,
                   set_calls, total_requests, loop_alive, wire, dpc, was_connected,
                   cpc, rid, ret>>

\* process_message, mutated: returns right after completing the promise
process_message_early_return(i) ==
    /\ UNCHANGED notWsVars
    /\ loop_alive
    /\ sess \in {"open", "closing"}
    /\ i \in wire
    /\ wire' = wire \ {i}
    /\ IF i \in pending_requests_
          THEN /\ total_requests' = total_requests + 1
               /\ IF waiting[i]
                     THEN SetValue(i, "response")
                     ELSE UNCHANGED <<promise, set_calls>>
               /\ UNCHANGED <<waiting, pending_requests_>>
          ELSE UNCHANGED <<total_requests, waiting, promise, set_calls, pending_requests_>>
    /\ UNCHANGED <<connected_, running_, request_id_counter_, sess, loop_alive, dpc,
                   was_connected, cpc, rid, ret>>

\* on_message -> process_message: the venue's response to request i arrives
process_message(i) ==
    /\ UNCHANGED notWsVars
    /\ loop_alive
    /\ sess \in {"open", "closing"}
    /\ i \in wire
    /\ wire' = wire \ {i}
    /\ IF i \in pending_requests_
          THEN /\ total_requests' = total_requests + 1
               /\ IF waiting[i]
                     THEN /\ SetValue(i, "response")
                          /\ waiting' = [waiting EXCEPT ![i] = FALSE]
                     ELSE UNCHANGED <<promise, set_calls, waiting>>
               /\ pending_requests_' = pending_requests_ \ {i}
          ELSE UNCHANGED <<total_requests, waiting, promise, set_calls, pending_requests_>>
    /\ UNCHANGED <<connected_, running_, request_id_counter_, sess, loop_alive, dpc,
                   was_connected, cpc, rid, ret>>

\* disconnect(), lines 133-141: the running_ guard and the two flags
disconnect_begin ==
    /\ UNCHANGED notWsVars
    /\ dpc = "idle"
    /\ sess # "none"
    /\ IF ~running_
          THEN UNCHANGED <<running_, connected_, was_connected, dpc>>
          ELSE /\ running_' = FALSE
               /\ was_connected' = connected_
               /\ connected_' = FALSE
               /\ dpc' = "l144"
    /\ UNCHANGED <<pending_requests_, request_id_counter_, waiting, promise, set_calls,
                   total_requests, sess, loop_alive, wire, cpc, rid, ret>>

\* lines 144-156: ws_client_->close() when the flag said connected
disconnect_close ==
    /\ UNCHANGED notWsVars
    /\ dpc = "l144"
    /\ dpc' = "l159"
    /\ sess' = IF was_connected /\ sess = "open" THEN "closing" ELSE sess
    /\ UNCHANGED <<connected_, running_, pending_requests_, request_id_counter_, waiting,
                   promise, set_calls, total_requests, loop_alive, wire, was_connected,
                   cpc, rid, ret>>

\* lines 159-176: ws_client_->stop() and the joins: the event loop has ended
disconnect_join ==
    /\ UNCHANGED notWsVars
    /\ dpc = "l159"
    /\ dpc' = "l179"
    /\ loop_alive' = FALSE
    /\ UNCHANGED <<connected_, running_, pending_requests_, request_id_counter_, waiting,
                   promise, set_calls, total_requests, sess, wire, was_connected,
                   cpc, rid, ret>>

\* lines 179-189: the sweep, under requests_mutex_
disconnect_sweep ==
    /\ UNCHANGED notWsVars
    /\ dpc = "l179"
    /\ dpc' = "l191"
    /\ promise' = [i \in Ids |->
                     IF i \in pending_requests_ /\ waiting[i] THEN "closed" ELSE promise[i]]
    /\ set_calls' = [i \in Ids |->
                     IF i \in pending_requests_ /\ waiting[i]
                        THEN set_calls[i] + 1 ELSE set_calls[i]]
    /\ pending_requests_' = {}
    /\ UNCHANGED <<connected_, running_, request_id_counter_, waiting, total_requests,
                   sess, loop_alive, wire, was_connected, cpc, rid, ret>>

\* line 191-192: disconnect() returns
disconnect_return ==
    /\ UNCHANGED notWsVars
    /\ dpc = "l191"
    /\ dpc' = "idle"
    /\ UNCHANGED <<connected_, running_, pending_requests_, request_id_counter_, waiting,
                   promise, set_calls, total_requests, sess, loop_alive, wire,
                   was_connected, cpc, rid, ret>>

\* send_request_and_wait, lines 405-408: the connected check
send_check(c) ==
    /\ UNCHANGED notWsVars
    /\ cpc[c] \in {"idle", "done"}
    /\ request_id_counter_ <= MaxRequests
    /\ IF ~connected_
          THEN /\ cpc' = [cpc EXCEPT ![c] = "done"]
               /\ ret' = [ret EXCEPT ![c] = "not_connected"]
          ELSE /\ cpc' = [cpc EXCEPT ![c] = "l410"]
               /\ ret' = [ret EXCEPT ![c] = "none"]
    /\ rid' = [rid EXCEPT ![c] = 0]
    /\ UNCHANGED <<connected_, running_, pending_requests_, request_id_counter_, waiting,
                   promise, set_calls, total_requests, sess, loop_alive, wire, dpc,
                   was_connected>>

\* generate_request_id, mutated: the counter is read and written back in two
\* steps, so an increment that overlaps another caller's is lost
generate_request_id_lost_update(c) ==
    /\ UNCHANGED notWsVars
    /\ cpc[c] = "l410"
    /\ request_id_counter_ <= MaxRequests
    /\ rid' = [rid EXCEPT ![c] = request_id_counter_]
    /\ request_id_counter_' = IF \E d \in Callers \ {c} : cpc[d] = "l419"
                                 THEN request_id_counter_
                                 ELSE request_id_counter_ + 1
    /\ cpc' = [cpc EXCEPT ![c] = "l419"]
    /\ UNCHANGED <<connected_, running_, pending_requests_, waiting, promise, set_calls,
                   total_requests, sess, loop_alive, wire, dpc, was_connected, ret>>

\* lines 410-411: create_signed_request -> generate_request_id: the atomic
\* request_id_counter_++ gives the request its id
generate_request_id(c) ==
    /\ UNCHANGED notWsVars
    /\ cpc[c] = "l410"
    /\ request_id_counter_ <= MaxRequests
    /\ rid' = [rid EXCEPT ![c] = request_id_counter_]
    /\ request_id_counter_' = request_id_counter_ + 1
    /\ cpc' = [cpc EXCEPT ![c] = "l419"]
    /\ UNCHANGED <<connected_, running_, pending_requests_, waiting, promise, set_calls,
                   total_requests, sess, loop_alive, wire, dpc, was_connected, ret>>

\* lines 419-422: the entry is stored under requests_mutex_
send_insert(c) ==
    /\ UNCHANGED notWsVars
    /\ cpc[c] = "l419"
    /\ pending_requests_' = pending_requests_ \cup {rid[c]}
    /\ cpc' = [cpc EXCEPT ![c] = "l429"]
    /\ UNCHANGED <<connected_, running_, request_id_counter_, waiting, promise, set_calls,
                   total_requests, sess, loop_alive, wire, dpc, was_connected, rid, ret>>

\* lines 429-441: ws_client_->send; it fails unless the connection is open
send_send(c) ==
    /\ UNCHANGED notWsVars
    /\ cpc[c] = "l429"
    /\ IF sess = "open"
          THEN /\ wire' = wire \cup {rid[c]}
               /\ cpc' = [cpc EXCEPT ![c] = "l445"]
               /\ UNCHANGED <<pending_requests_, ret>>
          ELSE /\ pending_requests_' = pending_requests_ \ {rid[c]}
               /\ cpc' = [cpc EXCEPT ![c] = "done"]
               /\ ret' = [ret EXCEPT ![c] = "send_failed"]
               /\ UNCHANGED wire
    /\ UNCHANGED <<connected_, running_, request_id_counter_, waiting, promise, set_calls,
                   total_requests, sess, loop_alive, dpc, was_connected, rid>>

\* line 445: wait_for returns ready, line 458 returns the value
send_get(c) ==
    /\ UNCHANGED notWsVars
    /\ cpc[c] = "l445"
    /\ promise[rid[c]] # "unset"
    /\ cpc' = [cpc EXCEPT ![c] = "done"]
    /\ ret' = [ret EXCEPT ![c] = promise[rid[c]]]
    /\ UNCHANGED <<connected_, running_, pending_requests_, request_id_counter_, waiting,
                   promise, set_calls, total_requests, sess, loop_alive, wire, dpc,
                   was_connected, rid>>

\* line 445: wait_for returns timeout
send_timeout(c) ==
    /\ UNCHANGED notWsVars
    /\ cpc[c] = "l445"
    /\ promise[rid[c]] = "unset"
    /\ cpc' = [cpc EXCEPT ![c] = "l450"]
    /\ UNCHANGED <<connected_, running_, pending_requests_, request_id_counter_, waiting,
                   promise, set_calls, total_requests, sess, loop_alive, wire, dpc,
                   was_connected, rid, ret>>

\* send_request_and_wait's timeout branch, mutated: the entry is not erased
send_evict_no_erase(c) ==
    /\ UNCHANGED notWsVars
    /\ cpc[c] = "l450"
    /\ waiting' = [waiting EXCEPT ![rid[c]] = FALSE]
    /\ cpc' = [cpc EXCEPT ![c] = "done"]
    /\ ret' = [ret EXCEPT ![c] = "timeout"]
    /\ UNCHANGED <<connected_, running_, pending_requests_, request_id_counter_, promise,
                   set_calls, total_requests, sess, loop_alive, wire, dpc, was_connected,
                   rid>>

\* lines 449-455: the entry is marked not waiting and evicted, under the mutex
send_evict(c) ==
    /\ UNCHANGED notWsVars
    /\ cpc[c] = "l450"
    /\ waiting' = [waiting EXCEPT ![rid[c]] = FALSE]
    /\ pending_requests_' = pending_requests_ \ {rid[c]}
    /\ cpc' = [cpc EXCEPT ![c] = "done"]
    /\ ret' = [ret EXCEPT ![c] = "timeout"]
    /\ UNCHANGED <<connected_, running_, request_id_counter_, promise, set_calls,
                   total_requests, sess, loop_alive, wire, dpc, was_connected, rid>>

(***************************************************************************)
(* OrderManager                                                            *)
(***************************************************************************)
OMInit ==
    /\ active_order = [s \in Sides |-> 0]
    /\ last_mid_price_ = 0
    /\ last_order_update_ = 0
    /\ failed_orders = 0
    /\ successful_orders = 0
    /\ total_orders = 0
    /\ now = order_update_cooldown
    /\ wpc = "idle"
    /\ new_mid_price = 0
    /\ order_to_cancel = [s \in Sides |-> 0]
    /\ cancel_task = [s \in Sides |-> "none"]
    /\ cancel_wait = [s \in Sides |-> "none"]
    /\ place_thread = [s \in Sides |-> "none"]
    /\ success = [s \in Sides |-> FALSE]
    /\ cancel_requests = {}
    /\ next_order_id = 1
    /\ cancel_result = [s \in Sides |-> "none"]
    /\ cancel_all_ret = "none"
    /\ delivered_at = 0
    /\ triggered_at = -1

Abs(x) == IF x < 0 THEN -x ELSE x

\* should_update_orders, mutated: the cooldown check is missing
should_update_orders_no_cooldown(m) ==
    ~(Abs(m - last_mid_price_) < 1)

\* should_update_orders: the mid changed by at least 0.00001 and the cooldown
\* since the last completed cycle has elapsed
should_update_orders(m) ==
    /\ ~(Abs(m - last_mid_price_) < 1)
    /\ ~(now - last_order_update_ < order_update_cooldown)

\* the hysteresis test of place_market_maker_orders, mutated: every change
\* of the mid counts as significant
price_change_significant_any(m) ==
    Abs(m - last_mid_price_) > 0

\* price_change_ratio > PRICE_CHANGE_THRESHOLD, with
\* price_change_ratio = |mid - last_mid| / last_mid
price_change_significant(m) ==
    Abs(m - last_mid_price_) * ThresholdInv > last_mid_price_

\* need_update of place_market_maker_orders, lines 74-101
need_update(m) ==
    IF active_order["bid"] = 0 \/ active_order["ask"] = 0
       THEN TRUE
       ELSE price_change_significant(m)

\* the worker thread calls update_orders_if_needed(m, orderbook_time)
update_orders_if_needed(m) ==
    /\ UNCHANGED notOmVars
    /\ wpc = "idle"
    /\ wpc' = "l246"
    /\ new_mid_price' = m
    /\ UNCHANGED <<delivered_at, triggered_at, cancel_result, cancel_all_ret>>
    /\ UNCHANGED <<active_order, last_mid_price_, last_order_update_, failed_orders,
                   successful_orders, total_orders, now, order_to_cancel, cancel_task,
                   cancel_wait, place_thread, success, cancel_requests, next_order_id>>

\* update_orders_if_needed line 246 and place_market_maker_orders up to line
\* 122: the cooldown gate, the hysteresis gate, the copy of the active pair
reprice_gates ==
    /\ UNCHANGED notOmVars
    /\ wpc = "l246"
    /\ IF should_update_orders(new_mid_price) /\ need_update(new_mid_price)
          THEN /\ order_to_cancel' = active_order
               /\ wpc' = IF active_order["bid"] # 0 /\ active_order["ask"] # 0
                            THEN "l127" ELSE "l163"
               /\ triggered_at' = now
          ELSE /\ wpc' = "idle"
               /\ UNCHANGED <<order_to_cancel, triggered_at>>
    /\ delivered_at' = now
    /\ UNCHANGED <<cancel_result, cancel_all_ret>>
    /\ UNCHANGED <<active_order, last_mid_price_, last_order_update_, failed_orders,
                   successful_orders, total_orders, now, new_mid_price, cancel_task,
                   cancel_wait, place_thread, success, cancel_requests, next_order_id>>

\* lines 127-132: std::async launches the cancel of one leg
launch_cancel(s) ==
    /\ UNCHANGED notOmVars
    /\ UNCHANGED <<delivered_at, triggered_at, cancel_result, cancel_all_ret>>
    /\ \/ s = "bid" /\ wpc = "l127" /\ wpc' = "l130"
       \/ s = "ask" /\ wpc = "l130" /\ wpc' = "l137"
    /\ cancel_task' = [cancel_task EXCEPT ![s] = "spawned"]
    /\ UNCHANGED <<active_order, last_mid_price_, last_order_update_, failed_orders,
                   successful_orders, total_orders, now, new_mid_price, order_to_cancel,
                   cancel_wait, place_thread, success, cancel_requests, next_order_id>>

\* cancel_order line 322: the task calls exchange_->cancel_order
cancel_order_call(s) ==
    /\ UNCHANGED notOmVars
    /\ UNCHANGED <<delivered_at, triggered_at, cancel_result, cancel_all_ret>>
    /\ cancel_task[s] = "spawned"
    /\ cancel_task' = [cancel_task EXCEPT ![s] = "calling"]
    /\ cancel_requests' = cancel_requests \cup {order_to_cancel[s]}
    /\ UNCHANGED <<active_order, last_mid_price_, last_order_update_, failed_orders,
                   successful_orders, total_orders, now, wpc, new_mid_price,
                   order_to_cancel, cancel_wait, place_thread, success, next_order_id>>

\* cancel_order lines 324-330: the exchange call returns (either result)
cancel_order_return(s) ==
    /\ UNCHANGED notOmVars
    /\ UNCHANGED <<delivered_at, triggered_at, cancel_all_ret>>
    /\ cancel_task[s] = "calling"
    /\ cancel_task' = [cancel_task EXCEPT ![s] = "done"]
    /\ \E r \in {"ok", "failed"} : cancel_result' = [cancel_result EXCEPT ![s] = r]
    /\ UNCHANGED <<active_order, last_mid_price_, last_order_update_, failed_orders,
                   successful_orders, total_orders, now, wpc, new_mid_price,
                   order_to_cancel, cancel_wait, place_thread, success, cancel_requests,
                   next_order_id>>

\* the position after the wait on side s
AfterWait(s) == IF s = "bid" THEN "l143" ELSE "l151"

\* the cancel wait, mutated: a timeout on the bid cancel skips to the places
wait_cancel_skip(s) ==
    /\ UNCHANGED notOmVars
    /\ UNCHANGED <<delivered_at, triggered_at, cancel_result, cancel_all_ret>>
    /\ \/ s = "bid" /\ wpc = "l137"
       \/ s = "ask" /\ wpc = "l143"
    /\ IF cancel_task[s] = "done"
          THEN /\ cancel_wait' = [cancel_wait EXCEPT ![s] = "ready"]
               /\ wpc' = AfterWait(s)
               /\ UNCHANGED now
          ELSE /\ now + CancelTimeoutMs <= MaxTime
               /\ now' = now + CancelTimeoutMs
               /\ cancel_wait' = [cancel_wait EXCEPT ![s] = "timeout"]
               /\ wpc' = IF s = "bid" THEN "l155" ELSE AfterWait(s)
    /\ UNCHANGED <<active_order, last_mid_price_, last_order_update_, failed_orders,
                   successful_orders, total_orders, new_mid_price, order_to_cancel,
                   cancel_task, place_thread, success, cancel_requests, next_order_id>>

\* lines 137-147: wait_for(100 ms) on one cancel future: ready, or timeout
\* after the 100 ms have passed
wait_cancel(s) ==
    /\ UNCHANGED notOmVars
    /\ UNCHANGED <<delivered_at, triggered_at, cancel_result, cancel_all_ret>>
    /\ \/ s = "bid" /\ wpc = "l137"
       \/ s = "ask" /\ wpc = "l143"
    /\ IF cancel_task[s] = "done"
          THEN /\ cancel_wait' = [cancel_wait EXCEPT ![s] = "ready"]
               /\ UNCHANGED now
          ELSE /\ now + CancelTimeoutMs <= MaxTime
               /\ now' = now + CancelTimeoutMs
               /\ cancel_wait' = [cancel_wait EXCEPT ![s] = "timeout"]
    /\ wpc' = AfterWait(s)
    /\ UNCHANGED <<active_order, last_mid_price_, last_order_update_, failed_orders,
                   successful_orders, total_orders, new_mid_price, order_to_cancel,
                   cancel_task, place_thread, success, cancel_requests, next_order_id>>

\* lines 150-154: both active legs are reset
clear_active ==
    /\ UNCHANGED notOmVars
    /\ UNCHANGED <<delivered_at, triggered_at, cancel_result, cancel_all_ret>>
    /\ wpc = "l151"
    /\ wpc' = "l155"
    /\ active_order' = [s \in Sides |-> 0]
    /\ UNCHANGED <<last_mid_price_, last_order_update_, failed_orders, successful_orders,
                   total_orders, now, new_mid_price, order_to_cancel, cancel_task,
                   cancel_wait, place_thread, success, cancel_requests, next_order_id>>

\* line 155: the two futures returned by std::async are destroyed at the end
\* of the block; each destructor blocks until its task has finished
cancel_futures_destroyed ==
    /\ UNCHANGED notOmVars
    /\ UNCHANGED <<delivered_at, triggered_at, cancel_all_ret>>
    /\ cancel_result' = [s \in Sides |-> "none"]
    /\ wpc = "l155"
    /\ \A s \in Sides : cancel_task[s] = "done"
    /\ wpc' = "l163"
    /\ cancel_task' = [s \in Sides |-> "none"]
    /\ UNCHANGED <<active_order, last_mid_price_, last_order_update_, failed_orders,
                   successful_orders, total_orders, now, new_mid_price, order_to_cancel,
                   cancel_wait, place_thread, success, cancel_requests, next_order_id>>

\* lines 163-177: the bid thread, then the ask thread, is started
start_place_thread(s) ==
    /\ UNCHANGED notOmVars
    /\ UNCHANGED <<delivered_at, triggered_at, cancel_result, cancel_all_ret>>
    /\ \/ s = "bid" /\ wpc = "l163" /\ wpc' = "l171"
       \/ s = "ask" /\ wpc = "l171" /\ wpc' = "l180"
    /\ place_thread' = [place_thread EXCEPT ![s] = "spawned"]
    /\ UNCHANGED <<active_order, last_mid_price_, last_order_update_, failed_orders,
                   successful_orders, total_orders, now, new_mid_price, order_to_cancel,
                   cancel_task, cancel_wait, success, cancel_requests, next_order_id>>

\* place_order lines 283-291: the thread calls exchange_->place_limit_order
place_order_call(s) ==
    /\ UNCHANGED notOmVars
    /\ UNCHANGED <<delivered_at, triggered_at, cancel_result, cancel_all_ret>>
    /\ place_thread[s] = "spawned"
    /\ place_thread' = [place_thread EXCEPT ![s] = "calling"]
    /\ UNCHANGED <<active_order, last_mid_price_, last_order_update_, failed_orders,
                   successful_orders, total_orders, now, wpc, new_mid_price,
                   order_to_cancel, cancel_task, cancel_wait, success, cancel_requests,
                   next_order_id>>

\* place_order lines 293-315: the exchange call returns an order, or nothing
place_order_return(s) ==
    /\ UNCHANGED notOmVars
    /\ UNCHANGED <<delivered_at, triggered_at, cancel_result, cancel_all_ret>>
    /\ place_thread[s] = "calling"
    /\ place_thread' = [place_thread EXCEPT ![s] = "done"]
    /\ \/ /\ active_order' = [active_order EXCEPT ![s] = next_order_id]
          /\ next_order_id' = next_order_id + 1
          /\ success' = [success EXCEPT ![s] = TRUE]
          /\ UNCHANGED failed_orders
       \/ /\ failed_orders' = failed_orders + 1
          /\ success' = [success EXCEPT ![s] = FALSE]
          /\ UNCHANGED <<active_order, next_order_id>>
    /\ UNCHANGED <<last_mid_price_, last_order_update_, successful_orders, total_orders,
                   now, wpc, new_mid_price, order_to_cancel, cancel_task, cancel_wait,
                   cancel_requests>>

\* lines 180-206: both threads are joined, last_mid_price_ and
\* last_order_update_ are set, update_metrics runs
finish_cycle ==
    /\ UNCHANGED notOmVars
    /\ UNCHANGED <<delivered_at, triggered_at, cancel_result, cancel_all_ret>>
    /\ wpc = "l180"
    /\ \A s \in Sides : place_thread[s] = "done"
    /\ last_mid_price_' = new_mid_price
    /\ last_order_update_' = now
    /\ total_orders' = total_orders + 1
    /\ successful_orders' = successful_orders + 2
    /\ wpc' = "idle"
    /\ order_to_cancel' = [s \in Sides |-> 0]
    /\ cancel_wait' = [s \in Sides |-> "none"]
    /\ place_thread' = [s \in Sides |-> "none"]
    /\ success' = [s \in Sides |-> FALSE]
    /\ UNCHANGED <<active_order, failed_orders, now, new_mid_price, cancel_task,
                   cancel_requests, next_order_id>>

\* ~OrderManager -> cancel_all_active_orders, lines 210-227: under
\* orders_mutex_, one cancel task is launched for each leg that exists, with
\* its own copy of the order.  The manager is destroyed after the worker
\* thread has been joined.
cancel_all_launch ==
    /\ UNCHANGED notOmVars
    /\ UNCHANGED <<delivered_at, triggered_at, cancel_result, cancel_all_ret>>
    /\ wpc = "idle"
    /\ wpc' = "l231"
    /\ order_to_cancel' = active_order
    /\ cancel_task' = [s \in Sides |-> IF active_order[s] # 0 THEN "spawned" ELSE "none"]
    /\ UNCHANGED <<active_order, last_mid_price_, last_order_update_, failed_orders,
                   successful_orders, total_orders, now, new_mid_price, cancel_wait,
                   place_thread, success, cancel_requests, next_order_id>>

\* lines 230-233: future.get() on every launched task, success &= result
cancel_all_get ==
    /\ UNCHANGED notOmVars
    /\ UNCHANGED <<delivered_at, triggered_at, cancel_result>>
    /\ wpc = "l231"
    /\ \A s \in Sides : cancel_task[s] \in {"none", "done"}
    /\ wpc' = "l235"
    /\ cancel_all_ret' = (\A s \in Sides : cancel_result[s] # "failed")
    /\ UNCHANGED <<active_order, last_mid_price_, last_order_update_, failed_orders,
                   successful_orders, total_orders, now, new_mid_price, order_to_cancel,
                   cancel_task, cancel_wait, place_thread, success, cancel_requests,
                   next_order_id>>

\* cancel_all_active_orders' reset, mutated: the pair is cleared only when
\* every cancel succeeded
cancel_all_reset_on_success ==
    /\ UNCHANGED notOmVars
    /\ UNCHANGED <<delivered_at, triggered_at, cancel_all_ret>>
    /\ wpc = "l235"
    /\ wpc' = "destroyed"
    /\ active_order' = IF cancel_all_ret THEN [s \in Sides |-> 0] ELSE active_order
    /\ cancel_task' = [s \in Sides |-> "none"]
    /\ cancel_result' = [s \in Sides |-> "none"]
    /\ UNCHANGED <<last_mid_price_, last_order_update_, failed_orders, successful_orders,
                   total_orders, now, new_mid_price, order_to_cancel, cancel_wait,
                   place_thread, success, cancel_requests, next_order_id>>

\* lines 235-239: both legs are reset and the call returns; the manager is
\* gone afterwards
cancel_all_reset ==
    /\ UNCHANGED notOmVars
    /\ UNCHANGED <<delivered_at, triggered_at, cancel_all_ret>>
    /\ wpc = "l235"
    /\ wpc' = "destroyed"
    /\ active_order' = [s \in Sides |-> 0]
    /\ cancel_task' = [s \in Sides |-> "none"]
    /\ cancel_result' = [s \in Sides |-> "none"]
    /\ UNCHANGED <<last_mid_price_, last_order_update_, failed_orders, successful_orders,
                   total_orders, now, new_mid_price, order_to_cancel, cancel_wait,
                   place_thread, success, cancel_requests, next_order_id>>

\* time passes
Tick ==
    /\ UNCHANGED notOmVars
    /\ UNCHANGED <<delivered_at, triggered_at, cancel_result, cancel_all_ret>>
    /\ now + TickMs <= MaxTime
    /\ now' = now + TickMs
    /\ UNCHANGED <<active_order, last_mid_price_, last_order_update_, failed_orders,
                   successful_orders, total_orders, wpc, new_mid_price, order_to_cancel,
                   cancel_task, cancel_wait, place_thread, success, cancel_requests,
                   next_order_id>>

(***************************************************************************)
(* OrderManager::generate_client_order_id                                  *)
(*                                                                         *)
(* An id is "MM_" + side + "_" + system_clock count + "_" + a number drawn *)
(* from the function's static generator; it is modelled as the triple.     *)
(* The generator is shared by the bid and the ask thread without a lock,   *)
(* so the number a call obtains is any value of the distribution's range.  *)
(***************************************************************************)
\* values of uniform_int_distribution<>(100000, 999999): its two ends
RandomValues == {100000, 999999}

IDInit ==
    /\ system_clock = 0
    /\ id_thread = [s \in Sides |-> "none"]
    /\ client_order_ids = <<>>

\* place_market_maker_orders lines 163-177: the two placement threads start
start_place_threads ==
    /\ UNCHANGED notIdVars
    /\ \A s \in Sides : id_thread[s] = "none"
    /\ Len(client_order_ids) + 2 <= MaxIds
    /\ id_thread' = [s \in Sides |-> "spawned"]
    /\ UNCHANGED <<system_clock, client_order_ids>>

\* place_order line 283 -> generate_client_order_id(side), lines 389-400
generate_client_order_id(s) ==
    /\ UNCHANGED notIdVars
    /\ id_thread[s] = "spawned"
    /\ id_thread' = [id_thread EXCEPT ![s] = "done"]
    /\ \E r \in RandomValues :
          client_order_ids' = Append(client_order_ids, <<s, system_clock, r>>)
    /\ UNCHANGED system_clock

\* lines 180-181: both threads are joined; the exchange calls took time
join_place_threads ==
    /\ UNCHANGED notIdVars
    /\ \A s \in Sides : id_thread[s] = "done"
    /\ system_clock < MaxClock
    /\ id_thread' = [s \in Sides |-> "none"]
    /\ system_clock' = system_clock + 1
    /\ UNCHANGED client_order_ids

\* the wall clock advances
system_clock_advance ==
    /\ UNCHANGED notIdVars
    /\ system_clock < MaxClock
    /\ system_clock' = system_clock + 1
    /\ UNCHANGED <<id_thread, client_order_ids>>

\* the wall clock is set back (system_clock is not monotonic)
system_clock_adjust ==
    /\ UNCHANGED notIdVars
    /\ \E t \in 0..MaxClock : t < system_clock /\ system_clock' = t
    /\ UNCHANGED <<id_thread, client_order_ids>>

IDNext ==
    \/ start_place_threads
    \/ \E s \in Sides : generate_client_order_id(s)
    \/ join_place_threads
    \/ system_clock_advance
    \/ system_clock_adjust

(***************************************************************************)
(* OrderManager: the prices of a reprice and the pre-issue validation      *)
(*                                                                         *)
(* Amounts are exact integers: a price unit is 0.0001, so a tick of 0.01   *)
(* is UnitsPerTick units and mid * (1 -/+ s) is exact for a mid that is a  *)
(* multiple of the tick and a spread that is a whole percentage.  The      *)
(* quantity is counted in lots of 0.00001.                                 *)
(***************************************************************************)
\* Config::price_precision
price_precision == 2
\* decimals of a price unit (0.0001)
UnitDecimals == 4
\* Config::order_size (0.001) in lots of 0.00001
order_size == 100
\* TradingLimits defaults: prices in ticks, quantities in lots, notional in
\* whole units of the quote currency
min_price == 1
max_price == 100000000
min_quantity == 1
max_quantity == 1000000000
min_notional == 10
max_notional == 100000
\* 1 / min_spread_percentage (0.001) and 1 / max_spread_percentage (0.10)
MinSpreadInv == 1000
MaxSpreadInv == 10
\* 1 / MAX_DEVIATION (0.10)
MaxDeviationInv == 10
\* price units * lots in one whole unit of the quote currency
NotionalScale == 1000000000

RECURSIVE Pow10(_)
Pow10(n) == IF n = 0 THEN 1 ELSE 10 * Pow10(n - 1)

\* price units in one tick: 1 / (unit * multiplier), multiplier = 10^precision
UnitsPerTick == Pow10(UnitDecimals - price_precision)

\* std::round of n / d for n >= 0, d > 0: to nearest, halves away from zero
Round(n, d) == (2 * n + d) \div (2 * d)

\* ceiling of n / d for n >= 0, d > 0
CeilDiv(n, d) == (n + d - 1) \div d

\* format_price: std::round(price * multiplier) / multiplier
format_price(price) == Round(price, UnitsPerTick) * UnitsPerTick

\* mids handed to place_market_maker_orders, in ticks: a few ticks, and the
\* mid 50050.00
QuoteMidTicks == (1..30) \cup {5005000}
\* configured spreads in percent (0 < s <= 0.1)
Spreads == {1, 2, 5, 10}

\* is_price_valid
is_price_valid(price) ==
    price >= min_price * UnitsPerTick /\ CeilDiv(price, UnitsPerTick) <= max_price

\* is_quantity_valid
is_quantity_valid(quantity) ==
    quantity >= min_quantity /\ quantity <= max_quantity /\ quantity > 0

\* is_notional_valid: notional = price * quantity within the limits; the
\* price (a multiple of the tick) is counted in ticks to keep the product
\* small
is_notional_valid(price, quantity) ==
    LET n == (price \div UnitsPerTick) * quantity
        scale == NotionalScale \div UnitsPerTick
    IN  n \div scale >= min_notional /\ CeilDiv(n, scale) <= max_notional

\* validate_order: price, quantity, notional, then the deviation from the
\* current mid (|price - mid| / mid > MAX_DEVIATION is rejected)
validate_order(price, quantity, mid) ==
    /\ is_price_valid(price)
    /\ is_quantity_valid(quantity)
    /\ is_notional_valid(price, quantity)
    /\ (mid > 0 => ~(Abs(price - mid) * MaxDeviationInv > mid))

\* is_spread_valid: (ask - bid) / mid within [min_spread, max_spread]
is_spread_valid(bid, ask, mid) ==
    IF mid <= 0 THEN TRUE
    ELSE /\ ask - bid >= CeilDiv(mid, MinSpreadInv)
         /\ (ask - bid) * MaxSpreadInv <= mid

\* validate_market_maker_orders: both legs, the spread, and bid < ask
validate_market_maker_orders(bid, ask, quantity, mid) ==
    /\ validate_order(bid, quantity, mid)
    /\ validate_order(ask, quantity, mid)
    /\ is_spread_valid(bid, ask, mid)
    /\ ~(bid >= ask)

QuoteInit ==
    /\ spread_percentage = 0
    /\ quote_pc = "unconfigured"
    /\ mid_price = 0
    /\ bid_price = 0
    /\ ask_price = 0
    /\ placed = {}

\* ConfigLoader::validate accepts 0 < spread_percentage <= 0.1
load_config(sp) ==
    /\ UNCHANGED notQuoteVars
    /\ quote_pc = "unconfigured"
    /\ ~(sp <= 0 \/ sp > 10)
    /\ spread_percentage' = sp
    /\ quote_pc' = "idle"
    /\ UNCHANGED <<mid_price, bid_price, ask_price, placed>>

\* place_market_maker_orders lines 24-41: the mid is checked and the two
\* prices are computed and rounded
calculate_prices(m) ==
    /\ UNCHANGED notQuoteVars
    /\ quote_pc = "idle"
    /\ ~(m <= 0)
    /\ mid_price' = m
    /\ bid_price' = format_price((m \div UnitsPerTick) * (100 - spread_percentage))
    /\ ask_price' = format_price((m \div UnitsPerTick) * (100 + spread_percentage))
    /\ placed' = {}
    /\ quote_pc' = "l163"
    /\ UNCHANGED spread_percentage

\* lines 163-177 and place_order lines 283-291: the thread of side s hands
\* its price to exchange_->place_limit_order
place_limit_order(s) ==
    /\ UNCHANGED notQuoteVars
    /\ quote_pc = "l163"
    /\ \A q \in placed : q[1] # s
    /\ placed' = placed \cup {<<s, IF s = "bid" THEN bid_price ELSE ask_price>>}
    /\ UNCHANGED <<spread_percentage, quote_pc, mid_price, bid_price, ask_price>>

\* lines 180-207: both threads are joined and the call returns
quote_return ==
    /\ UNCHANGED notQuoteVars
    /\ quote_pc = "l163"
    /\ \A s \in Sides : \E q \in placed : q[1] = s
    /\ quote_pc' = "idle"
    /\ UNCHANGED <<spread_percentage, mid_price, bid_price, ask_price, placed>>

QuoteNext ==
    \/ \E sp \in Spreads : load_config(sp)
    \/ \E m \in QuoteMidTicks : calculate_prices(m * UnitsPerTick)
    \/ \E s \in Sides : place_limit_order(s)
    \/ quote_return

(***************************************************************************)
(* MarketMakerBotV2: book updates, the mid and the main loop               *)
(*                                                                         *)
(* Book prices are counted in units of 0.000005 and mids in units of       *)
(* 0.0000025, so that (best_bid + best_ask) / 2.0 is the sum of the two    *)
(* book prices and the publication threshold 0.00001 is 4 mid units.       *)
(***************************************************************************)
\* the threshold of update_mid_price (0.00001) in mid units
PublishEpsilon == 4
\* best prices a book update may carry (1.000000 .. 1.000025)
BookPrices == {200000, 200002, 200003, 200005}
\* the levels of one side of a book update: none, or a best price
BookSides == {<<>>} \cup {<<q>> : q \in BookPrices}

MMInit ==
    /\ current_orderbook_ = [bids |-> <<>>, asks |-> <<>>]
    /\ current_mid_price_ = 0
    /\ price_changed_ = FALSE
    /\ loop_pc = "l143"
    /\ reprice_mid = 0
    /\ book_updates = 0
    /\ notified = FALSE
    /\ published_mid = 0

\* process_binance_orderbook -> handle_orderbook_update -> update_mid_price:
\* the book is stored; when both sides have a level the mid is stored, and
\* the notification is raised when it differs from the previous mid by more
\* than the threshold
handle_orderbook_update(bids, asks) ==
    /\ UNCHANGED notMmVars
    /\ book_updates < MaxBookUpdates
    /\ book_updates' = book_updates + 1
    /\ current_orderbook_' = [bids |-> bids, asks |-> asks]
    /\ IF bids # <<>> /\ asks # <<>>
          THEN LET new_mid == bids[1] + asks[1]
                   old_mid == current_mid_price_
               IN  /\ current_mid_price_' = new_mid
                   /\ IF Abs(old_mid - new_mid) > PublishEpsilon
                         THEN /\ price_changed_' = TRUE
                              /\ notified' = TRUE
                              /\ published_mid' = new_mid
                         ELSE /\ notified' = FALSE
                              /\ UNCHANGED <<price_changed_, published_mid>>
          ELSE /\ notified' = FALSE
               /\ UNCHANGED <<current_mid_price_, price_changed_, published_mid>>
    /\ UNCHANGED <<loop_pc, reprice_mid>>

\* main_loop lines 143-160: the wait ends (notification or 10 ms), the mid
\* is read and the flag is taken
main_loop_check ==
    /\ UNCHANGED notMmVars
    /\ loop_pc = "l143"
    /\ IF current_mid_price_ > 0 /\ price_changed_
          THEN loop_pc' = "l172"
          ELSE loop_pc' = "l143"
    /\ price_changed_' = IF current_mid_price_ > 0 THEN FALSE ELSE price_changed_
    /\ UNCHANGED <<current_orderbook_, current_mid_price_, reprice_mid, book_updates,
                   notified, published_mid>>

\* check_and_update_orders: the mid is read again and handed to
\* OrderManager::update_orders_if_needed
check_and_update_orders ==
    /\ UNCHANGED notMmVars
    /\ loop_pc = "l172"
    /\ loop_pc' = "l143"
    /\ reprice_mid' = IF current_mid_price_ <= 0 THEN reprice_mid ELSE current_mid_price_
    /\ UNCHANGED <<current_orderbook_, current_mid_price_, price_changed_, book_updates,
                   notified, published_mid>>

MMNext ==
    \/ \E bids, asks \in BookSides : handle_orderbook_update(bids, asks)
    \/ main_loop_check
    \/ check_and_update_orders

(***************************************************************************)
(* RateLimiter                                                             *)
(***************************************************************************)
\* std::chrono::seconds(1) of can_request, in ms
OneSecondMs == 1000
\* std::chrono::seconds(60) of cleanup_old_requests, in ms
CleanupHorizonMs == 60000

RLInit ==
    /\ request_times_ = <<>>
    /\ request_count_ = 0
    /\ rl_now = 0
    /\ rl_pc = "idle"
    /\ admitted = FALSE

\* cleanup_old_requests: entries older than the cutoff are popped off the
\* front
RECURSIVE cleanup_old_requests(_, _)
cleanup_old_requests(times, t) ==
    IF times # <<>> /\ Head(times) < t - CleanupHorizonMs
       THEN cleanup_old_requests(Tail(times), t)
       ELSE times

\* the count_if of can_request: entries within the last second
recent_requests(times, t) ==
    Cardinality({i \in 1..Len(times) : times[i] > t - OneSecondMs})

\* can_request, under mutex_: cleanup, the burst test on the size of the
\* deque, then the rate test on the entries of the last second
can_request ==
    /\ UNCHANGED notRlVars
    /\ rl_pc = "idle"
    /\ rl_pc' = "l30"
    /\ LET kept == cleanup_old_requests(request_times_, rl_now)
       IN  /\ request_times_' = kept
           /\ admitted' = IF Len(kept) >= burst_size_
                              THEN FALSE
                              ELSE recent_requests(kept, rl_now) < max_requests_per_second_
    /\ UNCHANGED <<request_count_, rl_now>>

\* the caller was admitted and records the request: record_request, under
\* mutex_
record_request ==
    /\ UNCHANGED notRlVars
    /\ rl_pc = "l30" /\ admitted
    /\ rl_pc' = "idle"
    /\ request_times_' = Append(request_times_, rl_now)
    /\ request_count_' = request_count_ + 1
    /\ UNCHANGED <<rl_now, admitted>>

\* the caller was refused: wait_if_needed sleeps 50 ms (less than one step
\* of the model's clock) before it asks again
sleep_for ==
    /\ UNCHANGED notRlVars
    /\ rl_pc = "l30" /\ ~admitted
    /\ rl_pc' = "idle"
    /\ UNCHANGED <<request_times_, request_count_, rl_now, admitted>>

\* time passes
rl_tick ==
    /\ UNCHANGED notRlVars
    /\ (rl_now % CleanupHorizonMs) + RLTickMs <= RLBusyMs
    /\ rl_now' = rl_now + RLTickMs
    /\ UNCHANGED <<request_times_, request_count_, rl_pc, admitted>>

\* a whole cleanup horizon passes
rl_quiet_minute ==
    /\ UNCHANGED notRlVars
    /\ rl_now < MaxQuietMinutes * CleanupHorizonMs
    /\ rl_now' = rl_now + CleanupHorizonMs
    /\ UNCHANGED <<request_times_, request_count_, rl_pc, admitted>>

RLNext ==
    \/ can_request
    \/ record_request
    \/ sleep_for
    \/ rl_tick
    \/ rl_quiet_minute

OMNext ==
    \/ \E m \in Mids : update_orders_if_needed(m)
    \/ reprice_gates
    \/ \E s \in Sides : launch_cancel(s)
    \/ \E s \in Sides : cancel_order_call(s)
    \/ \E s \in Sides : cancel_order_return(s)
    \/ \E s \in Sides : wait_cancel(s)
    \/ clear_active
    \/ cancel_futures_destroyed
    \/ \E s \in Sides : start_place_thread(s)
    \/ \E s \in Sides : place_order_call(s)
    \/ \E s \in Sides : place_order_return(s)
    \/ finish_cycle
    \/ cancel_all_launch
    \/ cancel_all_get
    \/ cancel_all_reset
    \/ Tick

WSNext ==
    \/ Connect
    \/ on_open
    \/ on_close
    \/ on_fail
    \/ \E i \in Ids : process_message(i)
    \/ disconnect_begin
    \/ disconnect_close
    \/ disconnect_join
    \/ disconnect_sweep
    \/ disconnect_return
    \/ \E c \in Callers : send_check(c)
    \/ \E c \in Callers : generate_request_id(c)
    \/ \E c \in Callers : send_insert(c)
    \/ \E c \in Callers : send_send(c)
    \/ \E c \in Callers : send_get(c)
    \/ \E c \in Callers : send_timeout(c)
    \/ \E c \in Callers : send_evict(c)

(***************************************************************************)
(* The exchange adapters' signed order operations                          *)
(*                                                                         *)
(* BinanceExchange calls enforce_rate_limit() at the head of each          *)
(* operation; WebSocketTradingAdapter hands each operation to the trading  *)
(* client directly.  A modify is one operation that issues a cancel and a  *)
(* place request.                                                          *)
(***************************************************************************)
Adapters == {"binance", "stream"}
SignedOps == {"place", "cancel", "cancel_all", "modify"}

\* int min_interval_ms = 1000 / config_.max_requests_per_second
min_interval_ms == 1000 \div exchange_max_requests_per_second

SPInit ==
    /\ adapter = "none"
    /\ sp_now = SpStartMs
    /\ last_request_time_ = 0
    /\ rate_limit_mutex_ = "none"
    /\ sp_pc = [t \in Callers |-> "idle"]
    /\ sp_op = [t \in Callers |-> "none"]
    /\ sp_wake = [t \in Callers |-> 0]
    /\ call_starts = <<>>

\* the supervisor's constructor creates the adapter the configuration names
create_exchange(a) ==
    /\ UNCHANGED notSpVars
    /\ adapter = "none"
    /\ adapter' = a
    /\ UNCHANGED <<sp_now, last_request_time_, rate_limit_mutex_, sp_pc, sp_op,
                   sp_wake, call_starts>>

\* a thread enters place_limit_order, cancel_order, cancel_all_orders or
\* modify_order of the adapter
signed_operation(t, op) ==
    /\ UNCHANGED notSpVars
    /\ adapter # "none"
    /\ sp_pc[t] = "idle"
    /\ Len(call_starts) < MaxCalls
    /\ sp_op' = [sp_op EXCEPT ![t] = op]
    /\ sp_pc' = [sp_pc EXCEPT ![t] = IF adapter = "binance" THEN "l645" ELSE "call"]
    /\ UNCHANGED <<adapter, sp_now, last_request_time_, rate_limit_mutex_, sp_wake,
                   call_starts>>

\* enforce_rate_limit: take the mutex, read the clock, decide on the sleep
enforce_rate_limit_lock(t) ==
    /\ UNCHANGED notSpVars
    /\ sp_pc[t] = "l645"
    /\ rate_limit_mutex_ = "none"
    /\ rate_limit_mutex_' = t
    /\ IF sp_now - last_request_time_ < min_interval_ms
         THEN /\ sp_wake' = [sp_wake EXCEPT ![t] = last_request_time_ + min_interval_ms]
              /\ sp_pc' = [sp_pc EXCEPT ![t] = "l657"]
         ELSE /\ sp_pc' = [sp_pc EXCEPT ![t] = "l662"]
              /\ UNCHANGED sp_wake
    /\ UNCHANGED <<adapter, sp_now, last_request_time_, sp_op, call_starts>>

\* sleep_for returns once the duration has elapsed
enforce_rate_limit_wake(t) ==
    /\ UNCHANGED notSpVars
    /\ sp_pc[t] = "l657"
    /\ sp_now >= sp_wake[t]
    /\ sp_pc' = [sp_pc EXCEPT ![t] = "l662"]
    /\ UNCHANGED <<adapter, sp_now, last_request_time_, rate_limit_mutex_, sp_op,
                   sp_wake, call_starts>>

\* last_request_time_ = now; the lock_guard releases the mutex
enforce_rate_limit_return(t) ==
    /\ UNCHANGED notSpVars
    /\ sp_pc[t] = "l662"
    /\ last_request_time_' = sp_now
    /\ rate_limit_mutex_' = "none"
    /\ sp_pc' = [sp_pc EXCEPT ![t] = "call"]
    /\ UNCHANGED <<adapter, sp_now, sp_op, sp_wake, call_starts>>

\* the requests an operation issues
RequestsOf(op) == IF op = "modify" THEN <<"cancel", "place">> ELSE <<op>>

\* the operation's network call(s) start
network_call(t) ==
    /\ UNCHANGED notSpVars
    /\ sp_pc[t] = "call"
    /\ call_starts' = call_starts \o
            [i \in 1..Len(RequestsOf(sp_op[t])) |->
                [op |-> RequestsOf(sp_op[t])[i], at |-> sp_now]]
    /\ sp_pc' = [sp_pc EXCEPT ![t] = "idle"]
    /\ sp_op' = [sp_op EXCEPT ![t] = "none"]
    /\ UNCHANGED <<adapter, sp_now, last_request_time_, rate_limit_mutex_, sp_wake>>

sp_tick ==
    /\ UNCHANGED notSpVars
    /\ sp_now + SpTickMs <= MaxSpTime
    /\ sp_now' = sp_now + SpTickMs
    /\ UNCHANGED <<adapter, last_request_time_, rate_limit_mutex_, sp_pc, sp_op,
                   sp_wake, call_starts>>

SPNext ==
    \/ \E a \in Adapters : create_exchange(a)
    \/ \E t \in Callers, op \in SignedOps : signed_operation(t, op)
    \/ \E t \in Callers : enforce_rate_limit_lock(t)
    \/ \E t \in Callers : enforce_rate_limit_wake(t)
    \/ \E t \in Callers : enforce_rate_limit_return(t)
    \/ \E t \in Callers : network_call(t)
    \/ sp_tick

(***************************************************************************)
(* WebSocketClient: the market-data transport                              *)
(*                                                                         *)
(* auto_reconnect_ is set by the adapter's initialize() and should_run_ is *)
(* cleared by the destructor only, so both are true throughout.  The       *)
(* stream is named by the URI, which connect() keeps in current_uri_.      *)
(***************************************************************************)
\* const int max_attempts = 10
max_attempts == 10
\* std::chrono::milliseconds reconnect_delay_{5000}; set_reconnect_delay has
\* no caller
reconnect_delay_ == 5000

ConfiguredAttempts == {3, 10}
ConfiguredDelays == {1000, 5000}
LossCauses == {"close_frame", "eof", "read_error", "idle_timeout"}

MDInit ==
    /\ max_reconnect_attempts = 0
    /\ reconnect_delay = 0
    /\ md_connected_ = FALSE
    /\ worker_pc = "none"
    /\ heartbeat_pc = "none"
    /\ reconnect_pc = "none"
    /\ attempts = 0
    /\ slept = 0
    /\ loss = "none"
    /\ losses = 0
    /\ connect_attempts = 0
    /\ process_state = "start"

\* main: the configuration file is read, the supervisor subscribes to the
\* book stream and the first connect() succeeds
load_from_file(n, d) ==
    /\ UNCHANGED notMdVars
    /\ process_state = "start"
    /\ max_reconnect_attempts' = n
    /\ reconnect_delay' = d
    /\ md_connected_' = TRUE
    /\ worker_pc' = "l325"
    /\ heartbeat_pc' = "running"
    /\ process_state' = "running"
    /\ UNCHANGED <<reconnect_pc, attempts, slept, loss, losses, connect_attempts>>

\* WebSocketClient::disconnect() as called by the transport's own threads
Lose(cause) ==
    /\ md_connected_' = FALSE
    /\ loss' = cause
    /\ losses' = losses + 1
    /\ connect_attempts' = 0

\* run_worker reads a close frame: disconnect(); return
worker_close_frame ==
    /\ UNCHANGED notMdVars
    /\ process_state = "running"
    /\ worker_pc = "l325" /\ md_connected_
    /\ losses < MaxLosses
    /\ Lose("close_frame")
    /\ worker_pc' = "exited"
    /\ UNCHANGED <<max_reconnect_attempts, reconnect_delay, heartbeat_pc, reconnect_pc,
                   attempts, slept, process_state>>

\* run_worker: SSL_read returns 0 (end of stream) or a real error:
\* disconnect(); break
worker_read_fails(cause) ==
    /\ UNCHANGED notMdVars
    /\ process_state = "running"
    /\ worker_pc = "l325" /\ md_connected_
    /\ losses < MaxLosses
    /\ Lose(cause)
    /\ worker_pc' = "l451"
    /\ UNCHANGED <<max_reconnect_attempts, reconnect_delay, heartbeat_pc, reconnect_pc,
                   attempts, slept, process_state>>

\* run_heartbeat: no message for more than 30 s: disconnect(); break
heartbeat_idle_timeout ==
    /\ UNCHANGED notMdVars
    /\ process_state = "running"
    /\ heartbeat_pc = "running" /\ md_connected_
    /\ losses < MaxLosses
    /\ Lose("idle_timeout")
    /\ heartbeat_pc' = "exited"
    /\ UNCHANGED <<max_reconnect_attempts, reconnect_delay, worker_pc, reconnect_pc,
                   attempts, slept, process_state>>

\* run_heartbeat wakes while the transport is disconnected and breaks
heartbeat_exit ==
    /\ UNCHANGED notMdVars
    /\ process_state = "running"
    /\ heartbeat_pc = "running" /\ ~md_connected_
    /\ heartbeat_pc' = "exited"
    /\ UNCHANGED <<max_reconnect_attempts, reconnect_delay, md_connected_, worker_pc,
                   reconnect_pc, attempts, slept, loss, losses, connect_attempts,
                   process_state>>

\* run_worker after another thread's disconnect(): the loop condition
\* fails, or the pending SSL_read on the freed SSL object returns an error
worker_loop_ends ==
    /\ UNCHANGED notMdVars
    /\ process_state = "running"
    /\ worker_pc = "l325" /\ ~md_connected_
    /\ worker_pc' = "l451"
    /\ UNCHANGED <<max_reconnect_attempts, reconnect_delay, md_connected_, heartbeat_pc,
                   reconnect_pc, attempts, slept, loss, losses, connect_attempts,
                   process_state>>

\* the same read, when the use of the freed SSL object faults
worker_read_faults ==
    /\ UNCHANGED notMdVars
    /\ process_state = "running"
    /\ worker_pc = "l325" /\ ~md_connected_ /\ loss \in {"idle_timeout", "supervisor"}
    /\ process_state' = "crashed"
    /\ UNCHANGED <<max_reconnect_attempts, reconnect_delay, md_connected_, worker_pc,
                   heartbeat_pc, reconnect_pc, attempts, slept, loss, losses,
                   connect_attempts>>

\* the tail of run_worker: handle_reconnect() starts a detached thread
worker_tail ==
    /\ UNCHANGED notMdVars
    /\ process_state = "running"
    /\ worker_pc = "l451"
    /\ worker_pc' = "exited"
    /\ IF ~md_connected_
         THEN /\ reconnect_pc' = "l465"
              /\ attempts' = 0
         ELSE UNCHANGED <<reconnect_pc, attempts>>
    /\ UNCHANGED <<max_reconnect_attempts, reconnect_delay, md_connected_, heartbeat_pc,
                   slept, loss, losses, connect_attempts, process_state>>

\* the reconnect thread's loop condition and attempts++
reconnect_loop ==
    /\ UNCHANGED notMdVars
    /\ process_state = "running"
    /\ reconnect_pc = "l465"
    /\ IF ~md_connected_ /\ attempts < max_attempts
         THEN /\ attempts' = attempts + 1
              /\ reconnect_pc' = "l470"
         ELSE /\ reconnect_pc' = "l478"
              /\ UNCHANGED attempts
    /\ UNCHANGED <<max_reconnect_attempts, reconnect_delay, md_connected_, worker_pc,
                   heartbeat_pc, slept, loss, losses, connect_attempts, process_state>>

\* std::this_thread::sleep_for(reconnect_delay_)
reconnect_sleep ==
    /\ UNCHANGED notMdVars
    /\ process_state = "running"
    /\ reconnect_pc = "l470"
    /\ slept' = reconnect_delay_
    /\ reconnect_pc' = "l472"
    /\ UNCHANGED <<max_reconnect_attempts, reconnect_delay, md_connected_, worker_pc,
                   heartbeat_pc, attempts, loss, losses, connect_attempts, process_state>>

\* connect(current_uri_) fails
reconnect_connect_fails ==
    /\ UNCHANGED notMdVars
    /\ process_state = "running"
    /\ reconnect_pc = "l472"
    /\ connect_attempts' = connect_attempts + 1
    /\ reconnect_pc' = "l465"
    /\ UNCHANGED <<max_reconnect_attempts, reconnect_delay, md_connected_, worker_pc,
                   heartbeat_pc, attempts, slept, loss, losses, process_state>>

\* connect(current_uri_) succeeds: connected_ = true, the old worker thread
\* is joined and a new one started; the old heartbeat thread is joined if it
\* is still joinable, which blocks while that thread keeps running
reconnect_connect ==
    /\ UNCHANGED notMdVars
    /\ process_state = "running"
    /\ reconnect_pc = "l472"
    /\ worker_pc = "exited"
    /\ connect_attempts' = connect_attempts + 1
    /\ md_connected_' = TRUE
    /\ worker_pc' = "l325"
    /\ IF heartbeat_pc = "running"
         THEN /\ reconnect_pc' = "l212"
              /\ UNCHANGED heartbeat_pc
         ELSE /\ reconnect_pc' = "l478"
              /\ heartbeat_pc' = "running"
    /\ UNCHANGED <<max_reconnect_attempts, reconnect_delay, attempts, slept, loss,
                   losses, process_state>>

\* heartbeat_thread_.join() returns; a new heartbeat thread is started
reconnect_heartbeat_joined ==
    /\ UNCHANGED notMdVars
    /\ process_state = "running"
    /\ reconnect_pc = "l212"
    /\ heartbeat_pc = "exited"
    /\ heartbeat_pc' = "running"
    /\ reconnect_pc' = "l478"
    /\ UNCHANGED <<max_reconnect_attempts, reconnect_delay, md_connected_, worker_pc,
                   attempts, slept, loss, losses, connect_attempts, process_state>>

\* the reconnect thread logs the failure, if any, and ends
reconnect_exit ==
    /\ UNCHANGED notMdVars
    /\ process_state = "running"
    /\ reconnect_pc = "l478"
    /\ reconnect_pc' = "exited"
    /\ UNCHANGED <<max_reconnect_attempts, reconnect_delay, md_connected_, worker_pc,
                   heartbeat_pc, attempts, slept, loss, losses, connect_attempts,
                   process_state>>

\* main.cpp's signal handler: should_exit = true, bot->stop(), std::exit(0)
signal_handler ==
    /\ UNCHANGED notMdVars
    /\ process_state = "running"
    /\ process_state' = "terminated"
    /\ UNCHANGED <<max_reconnect_attempts, reconnect_delay, md_connected_, worker_pc,
                   heartbeat_pc, reconnect_pc, attempts, slept, loss, losses,
                   connect_attempts>>

\* the steps of the transport's threads
MDThreads ==
    \/ heartbeat_exit
    \/ worker_loop_ends
    \/ worker_read_faults
    \/ worker_tail
    \/ reconnect_loop
    \/ reconnect_sleep
    \/ reconnect_heartbeat_joined
    \/ reconnect_exit

\* the outcome of a connect() call
MDConnects ==
    \/ reconnect_connect_fails
    \/ reconnect_connect

\* what the venue, the network and the operator do
MDEnvironment ==
    \/ \E n \in ConfiguredAttempts, d \in ConfiguredDelays : load_from_file(n, d)
    \/ worker_close_frame
    \/ \E c \in {"eof", "read_error"} : worker_read_fails(c)
    \/ heartbeat_idle_timeout
    \/ signal_handler

MDNext == MDThreads \/ MDConnects \/ MDEnvironment

(***************************************************************************)
(* WebSocketTradingClient::handle_reconnect                                *)
(*                                                                         *)
(* connect() starts the thread once the stream is open; auto_reconnect_ is *)
(* set by the adapter before connect().                                    *)
(***************************************************************************)
TRInit == reconnect_thread_ = "none"

\* connect(), lines 113-123: the wait for connected_ has succeeded
connect_returns ==
    /\ UNCHANGED notTrVars
    /\ reconnect_thread_ = "none"
    /\ running_ /\ connected_
    /\ reconnect_thread_' = "l203"

\* while (running_ && auto_reconnect_) { if (!connected_) ...
handle_reconnect_loop ==
    /\ UNCHANGED notTrVars
    /\ reconnect_thread_ = "l203"
    /\ reconnect_thread_' = IF ~running_ THEN "exited"
                            ELSE IF ~connected_ THEN "l205" ELSE "l220"

\* lines 205-216: after the delay, if (!running_) break; otherwise
\* connected_ = false and the connection handler is told
handle_reconnect_wake ==
    /\ UNCHANGED notWsTrVars
    /\ reconnect_thread_ = "l205"
    /\ IF ~running_
         THEN /\ reconnect_thread_' = "exited"
              /\ UNCHANGED connected_
         ELSE /\ reconnect_thread_' = "l220"
              /\ connected_' = FALSE
    /\ UNCHANGED <<running_, pending_requests_, request_id_counter_, waiting, promise,
                   set_calls, total_requests, sess, loop_alive, wire, dpc, was_connected,
                   cpc, rid, ret>>

\* line 220: the one-second sleep ends
handle_reconnect_second ==
    /\ UNCHANGED notTrVars
    /\ reconnect_thread_ = "l220"
    /\ reconnect_thread_' = "l203"

\* disconnect(), lines 159-176: both joins have returned
disconnect_join_threads ==
    /\ reconnect_thread_ \in {"none", "exited"}
    /\ disconnect_join

\* the steps of the reconnect thread
TRThread ==
    \/ connect_returns
    \/ handle_reconnect_loop
    \/ handle_reconnect_wake
    \/ handle_reconnect_second

\* the client with its reconnect thread and one calling thread
TRNext ==
    \/ TRThread
    \/ Connect
    \/ on_open
    \/ on_close
    \/ on_fail
    \/ \E i \in Ids : process_message(i)
    \/ disconnect_begin
    \/ disconnect_close
    \/ disconnect_join_threads
    \/ disconnect_sweep
    \/ disconnect_return
    \/ send_check("t1")
    \/ generate_request_id("t1")
    \/ send_insert("t1")
    \/ send_send("t1")
    \/ send_get("t1")
    \/ send_timeout("t1")
    \/ send_evict("t1")

(***************************************************************************)
(* MarketMakerBotV2: run(), stop(), the signal handler and the destruction *)
(* of the supervisor and its order manager                                 *)
(*                                                                         *)
(* The state starts after run().  The adapter is the one create_exchange   *)
(* chose.  The handler runs on whichever thread the signal is delivered    *)
(* to; it never returns (std::exit).                                       *)
(***************************************************************************)
Stoppers == {"handler", "main"}

SDInit ==
    /\ bot_running_ = TRUE
    /\ should_exit = FALSE
    /\ handler_on = "none"
    /\ bot_worker = "l143"
    /\ main_thread_joinable = TRUE
    /\ stop_pc = [t \in Stoppers |-> "idle"]
    /\ trading_open = TRUE
    /\ believed_resting = {}
    /\ cancels_sent = {}
    /\ exit_state = "running"

\* can a signed request still reach the venue: BinanceExchange::disconnect
\* leaves the REST client alone, the stream adapter needs its trading client
CanSend == adapter = "binance" \/ trading_open

\* main_loop: while (running_) { wait_for(...)
bot_worker_wait ==
    /\ UNCHANGED notSdVars
    /\ adapter # "none"
    /\ handler_on # "worker"
    /\ bot_worker = "l143"
    /\ bot_worker' = IF bot_running_ THEN "l152" ELSE "exited"
    /\ UNCHANGED <<bot_running_, should_exit, handler_on, main_thread_joinable, stop_pc,
                   trading_open, believed_resting, cancels_sent, exit_state>>

\* if (!running_) break; then a reprice cycle if the price changed
bot_worker_check(changed) ==
    /\ UNCHANGED notSdVars
    /\ handler_on # "worker"
    /\ bot_worker = "l152"
    /\ bot_worker' = IF ~bot_running_ THEN "exited"
                     ELSE IF changed THEN "l158" ELSE "l143"
    /\ UNCHANGED <<bot_running_, should_exit, handler_on, main_thread_joinable, stop_pc,
                   trading_open, believed_resting, cancels_sent, exit_state>>

\* check_and_update_orders returns: the pair was cleared and the legs whose
\* place request succeeded are held as active
bot_worker_cycle(held) ==
    /\ UNCHANGED notSdVars
    /\ handler_on # "worker"
    /\ bot_worker = "l158"
    /\ CanSend \/ held = {}
    /\ believed_resting' = held
    /\ bot_worker' = "l143"
    /\ UNCHANGED <<bot_running_, should_exit, handler_on, main_thread_joinable, stop_pc,
                   trading_open, cancels_sent, exit_state>>

\* a termination signal is delivered to thread h: should_exit = true and the
\* handler enters bot->stop()
deliver_signal(h) ==
    /\ UNCHANGED notSdVars
    /\ adapter # "none"
    /\ exit_state = "running"
    /\ handler_on = "none"
    /\ h = "worker" => bot_worker # "exited"
    /\ handler_on' = h
    /\ should_exit' = TRUE
    /\ stop_pc' = [stop_pc EXCEPT !["handler"] = "l122"]
    /\ UNCHANGED <<bot_running_, bot_worker, main_thread_joinable, trading_open,
                   believed_resting, cancels_sent, exit_state>>

\* main's loop sees should_exit and calls bot->stop()
main_sees_exit ==
    /\ UNCHANGED notSdVars
    /\ exit_state = "running"
    /\ should_exit
    /\ handler_on # "main"
    /\ stop_pc["main"] = "idle"
    /\ stop_pc' = [stop_pc EXCEPT !["main"] = "l122"]
    /\ UNCHANGED <<bot_running_, should_exit, handler_on, bot_worker,
                   main_thread_joinable, trading_open, believed_resting, cancels_sent,
                   exit_state>>

\* stop(): running_ = false; price_change_cv_.notify_all()
stop_clear_running(t) ==
    /\ UNCHANGED notSdVars
    /\ exit_state = "running"
    /\ stop_pc[t] = "l122"
    /\ bot_running_' = FALSE
    /\ stop_pc' = [stop_pc EXCEPT ![t] = "l128"]
    /\ UNCHANGED <<should_exit, handler_on, bot_worker, main_thread_joinable,
                   trading_open, believed_resting, cancels_sent, exit_state>>

\* stop(): exchange_->disconnect()
stop_disconnect(t) ==
    /\ UNCHANGED notSdVars
    /\ exit_state = "running"
    /\ stop_pc[t] = "l128"
    /\ trading_open' = FALSE
    /\ stop_pc' = [stop_pc EXCEPT ![t] = "l133"]
    /\ UNCHANGED <<bot_running_, should_exit, handler_on, bot_worker,
                   main_thread_joinable, believed_resting, cancels_sent, exit_state>>

\* stop(): if (main_thread_.joinable()) main_thread_.join(); join() called
\* on the calling thread itself throws std::system_error
stop_join(t) ==
    /\ UNCHANGED notSdVars
    /\ exit_state = "running"
    /\ stop_pc[t] = "l133"
    /\ stop_pc' = [stop_pc EXCEPT ![t] =
                      IF ~main_thread_joinable THEN "returned"
                      ELSE IF t = "handler" /\ handler_on = "worker" THEN "threw"
                      ELSE "joining"]
    /\ UNCHANGED <<bot_running_, should_exit, handler_on, bot_worker,
                   main_thread_joinable, trading_open, believed_resting, cancels_sent,
                   exit_state>>

\* join() ends once the worker has ended.  A second thread that was inside
\* join() on the same std::thread object finds it already joined: the
\* outcome of that call is not defined, it returns or throws
stop_joined(t, outcome) ==
    /\ UNCHANGED notSdVars
    /\ exit_state = "running"
    /\ stop_pc[t] = "joining"
    /\ bot_worker = "exited"
    /\ main_thread_joinable => outcome = "returned"
    /\ main_thread_joinable' = FALSE
    /\ stop_pc' = [stop_pc EXCEPT ![t] = outcome]
    /\ UNCHANGED <<bot_running_, should_exit, handler_on, bot_worker, trading_open,
                   believed_resting, cancels_sent, exit_state>>

\* the exception leaves the signal handler: std::terminate
handler_terminates ==
    /\ UNCHANGED notSdVars
    /\ exit_state = "running"
    /\ stop_pc["handler"] = "threw"
    /\ exit_state' = "aborted"
    /\ UNCHANGED <<bot_running_, should_exit, handler_on, bot_worker,
                   main_thread_joinable, stop_pc, trading_open, believed_resting,
                   cancels_sent>>

\* std::exit(0) in the handler, or main returns (its catch block returns 1):
\* the global bot is destroyed; ~MarketMakerBotV2 calls stop() and joins,
\* then ~OrderManager runs cancel_all_active_orders(), whose cancel requests
\* go out only if the adapter can still send
exit_destroys_bot(t) ==
    /\ UNCHANGED notSdVars
    /\ exit_state = "running"
    /\ \/ stop_pc[t] = "returned"
       \/ t = "main" /\ stop_pc[t] = "threw"
    /\ bot_worker = "exited"
    /\ main_thread_joinable' = FALSE
    /\ cancels_sent' = cancels_sent \cup (IF CanSend THEN believed_resting ELSE {})
    /\ believed_resting' = {}
    /\ exit_state' = "exited"
    /\ UNCHANGED <<bot_running_, should_exit, handler_on, bot_worker, stop_pc,
                   trading_open>>

SDNext ==
    \/ \E a \in Adapters : create_exchange(a)
    \/ bot_worker_wait
    \/ \E changed \in BOOLEAN : bot_worker_check(changed)
    \/ \E held \in SUBSET Sides : bot_worker_cycle(held)
    \/ \E h \in {"main", "worker", "other"} : deliver_signal(h)
    \/ main_sees_exit
    \/ \E t \in Stoppers : stop_clear_running(t)
    \/ \E t \in Stoppers : stop_disconnect(t)
    \/ \E t \in Stoppers : stop_join(t)
    \/ \E t \in Stoppers, outcome \in {"returned", "threw"} : stop_joined(t, outcome)
    \/ handler_terminates
    \/ \E t \in Stoppers : exit_destroys_bot(t)

(***************************************************************************)
(* The time stamps of a reprice cycle                                      *)
(*                                                                         *)
(* The clock counts nanoseconds; update_metrics casts both differences to  *)
(* whole microseconds before dividing by 1000.0, so the recorded values    *)
(* are compared as microsecond counts.                                     *)
(***************************************************************************)
NsPerUs == 1000

\* std::chrono::duration_cast<std::chrono::microseconds> of a non-negative
\* duration
duration_cast_us(ns) == ns \div NsPerUs

LatInit ==
    /\ lat_now = LatStartNs
    /\ last_orderbook_time_ = 0
    /\ lat_pc = "idle"
    /\ orderbook_time = 0
    /\ start_time = 0
    /\ execution_latency_us = -1
    /\ reaction_latency_us = -1
    /\ lat_cycles = 0

\* handle_orderbook_update on the market-data thread: the receive time is
\* taken and stored under orderbook_mutex_
store_orderbook_time ==
    /\ UNCHANGED notLatVars
    /\ last_orderbook_time_' = lat_now
    /\ UNCHANGED <<lat_now, lat_pc, orderbook_time, start_time, execution_latency_us,
                   reaction_latency_us, lat_cycles>>

\* check_and_update_orders reads last_orderbook_time_ under the mutex
read_orderbook_time ==
    /\ UNCHANGED notLatVars
    /\ lat_pc = "idle"
    /\ lat_cycles < MaxLatCycles
    /\ orderbook_time' = last_orderbook_time_
    /\ lat_pc' = "l186"
    /\ UNCHANGED <<lat_now, last_orderbook_time_, start_time, execution_latency_us,
                   reaction_latency_us, lat_cycles>>

\* update_orders_if_needed declines (no change or cooldown): no cycle
decline_update ==
    /\ UNCHANGED notLatVars
    /\ lat_pc = "l186"
    /\ lat_pc' = "idle"
    /\ UNCHANGED <<lat_now, last_orderbook_time_, orderbook_time, start_time,
                   execution_latency_us, reaction_latency_us, lat_cycles>>

\* place_market_maker_orders: auto start_time = steady_clock::now()
take_start_time ==
    /\ UNCHANGED notLatVars
    /\ lat_pc = "l186"
    /\ start_time' = lat_now
    /\ lat_pc' = "l30"
    /\ UNCHANGED <<lat_now, last_orderbook_time_, orderbook_time, execution_latency_us,
                   reaction_latency_us, lat_cycles>>

\* the cycle returns early (orders unchanged) without recording metrics
return_without_metrics ==
    /\ UNCHANGED notLatVars
    /\ lat_pc = "l30"
    /\ lat_pc' = "idle"
    /\ UNCHANGED <<lat_now, last_orderbook_time_, orderbook_time, start_time,
                   execution_latency_us, reaction_latency_us, lat_cycles>>

\* update_metrics, mutated: the reaction latency is taken from the receive
\* time of the latest book instead of the one handed down
update_metrics_latest_book ==
    /\ UNCHANGED notLatVars
    /\ lat_pc = "l30"
    /\ execution_latency_us' = duration_cast_us(lat_now - start_time)
    /\ reaction_latency_us' = duration_cast_us(lat_now - last_orderbook_time_)
    /\ lat_cycles' = lat_cycles + 1
    /\ lat_pc' = "idle"
    /\ UNCHANGED <<lat_now, last_orderbook_time_, orderbook_time, start_time>>

\* update_metrics(start_time, orderbook_time)
update_metrics ==
    /\ UNCHANGED notLatVars
    /\ lat_pc = "l30"
    /\ execution_latency_us' = duration_cast_us(lat_now - start_time)
    /\ reaction_latency_us' = duration_cast_us(lat_now - orderbook_time)
    /\ lat_cycles' = lat_cycles + 1
    /\ lat_pc' = "idle"
    /\ UNCHANGED <<lat_now, last_orderbook_time_, orderbook_time, start_time>>

lat_tick ==
    /\ UNCHANGED notLatVars
    /\ lat_now + LatTickNs <= MaxLatTime
    /\ lat_now' = lat_now + LatTickNs
    /\ UNCHANGED <<last_orderbook_time_, lat_pc, orderbook_time, start_time,
                   execution_latency_us, reaction_latency_us, lat_cycles>>

LatNext ==
    \/ store_orderbook_time
    \/ read_orderbook_time
    \/ decline_update
    \/ take_start_time
    \/ return_without_metrics
    \/ update_metrics
    \/ lat_tick

(***************************************************************************)
(* The adapters' order book parsing                                        *)
(*                                                                         *)
(* A book side is the sequence of its level prices.                        *)
(***************************************************************************)
LevelPrices == 1..3
BookSide == UNION {[1..n -> LevelPrices] : n \in 0..MaxLevels}

\* insertion of a price into a sequence sorted by before(a, b)
RECURSIVE InsertSorted(_, _, _)
InsertSorted(p, s, desc) ==
    IF s = <<>> THEN <<p>>
    ELSE IF (IF desc THEN p > s[1] ELSE p < s[1]) THEN <<p>> \o s
    ELSE <<s[1]>> \o InsertSorted(p, Tail(s), desc)

\* std::sort with the comparator a.price > b.price (desc) or a.price < b.price
RECURSIVE SortPrices(_, _)
SortPrices(s, desc) ==
    IF s = <<>> THEN <<>>
    ELSE InsertSorted(s[1], SortPrices(Tail(s), desc), desc)

\* MarketMakerBotV2::update_mid_price: (bids[0].price + asks[0].price) / 2.0,
\* kept doubled
MidOf(book) ==
    IF book.bids # <<>> /\ book.asks # <<>> THEN book.bids[1] + book.asks[1] ELSE 0

BKInit ==
    /\ payload = [bids |-> <<>>, asks |-> <<>>]
    /\ handed_orderbook = [bids |-> <<>>, asks |-> <<>>]
    /\ handed_mid2 = 0
    /\ payloads = 0

\* BinanceExchange::process_binance_orderbook: the levels are pushed back
\* in the order of the payload and the book is handed on
process_binance_orderbook(bids, asks) ==
    /\ UNCHANGED notBkVars
    /\ adapter = "binance"
    /\ payloads < MaxPayloads
    /\ payload' = [bids |-> bids, asks |-> asks]
    /\ handed_orderbook' = [bids |-> bids, asks |-> asks]
    /\ handed_mid2' = MidOf(handed_orderbook')
    /\ payloads' = payloads + 1

\* WebSocketTradingAdapter::update_orderbook_from_message: the levels are
\* collected, both sides sorted, and the book is handed on
update_orderbook_from_message(bids, asks) ==
    /\ UNCHANGED notBkVars
    /\ adapter = "stream"
    /\ payloads < MaxPayloads
    /\ payload' = [bids |-> bids, asks |-> asks]
    /\ handed_orderbook' = [bids |-> SortPrices(bids, TRUE),
                            asks |-> SortPrices(asks, FALSE)]
    /\ handed_mid2' = MidOf(handed_orderbook')
    /\ payloads' = payloads + 1

BKNext ==
    \/ \E a \in Adapters : create_exchange(a)
    \/ \E bids \in BookSide, asks \in BookSide : process_binance_orderbook(bids, asks)
    \/ \E bids \in BookSide, asks \in BookSide :
          update_orderbook_from_message(bids, asks)

(***************************************************************************)
(* RateLimiter shared by several threads                                   *)
(***************************************************************************)
\* the threads that use one bucket of OrderRateLimiter::instance()
BucketCallers == {"c1", "c2"}

RCInit ==
    /\ caller_pc = [t \in BucketCallers |-> "idle"]
    /\ caller_admitted = [t \in BucketCallers |-> FALSE]

\* can_request called by thread t: mutex_ is held for the cleanup and the
\* two tests, and released when the call returns
caller_can_request(t) ==
    /\ UNCHANGED notRlRcVars
    /\ caller_pc[t] = "idle"
    /\ caller_pc' = [caller_pc EXCEPT ![t] = "l30"]
    /\ LET kept == cleanup_old_requests(request_times_, rl_now)
       IN  /\ request_times_' = kept
           /\ caller_admitted' = [caller_admitted EXCEPT ![t] =
                  IF Len(kept) >= burst_size_
                     THEN FALSE
                     ELSE recent_requests(kept, rl_now) < max_requests_per_second_]
    /\ UNCHANGED <<request_count_, rl_now, rl_pc, admitted>>

\* record_request called by an admitted thread: mutex_ is taken again
caller_record_request(t) ==
    /\ UNCHANGED notRlRcVars
    /\ caller_pc[t] = "l30" /\ caller_admitted[t]
    /\ caller_pc' = [caller_pc EXCEPT ![t] = "idle"]
    /\ request_times_' = Append(request_times_, rl_now)
    /\ request_count_' = request_count_ + 1
    /\ UNCHANGED <<rl_now, rl_pc, admitted, caller_admitted>>

\* a refused thread sleeps 50 ms in wait_if_needed and asks again
caller_sleep_for(t) ==
    /\ UNCHANGED notRlRcVars
    /\ caller_pc[t] = "l30" /\ ~caller_admitted[t]
    /\ caller_pc' = [caller_pc EXCEPT ![t] = "idle"]
    /\ UNCHANGED <<request_times_, request_count_, rl_now, rl_pc, admitted,
                   caller_admitted>>

RCNext ==
    \/ \E t \in BucketCallers : caller_can_request(t)
    \/ \E t \in BucketCallers : caller_record_request(t)
    \/ \E t \in BucketCallers : caller_sleep_for(t)
    \/ rl_tick
    \/ rl_quiet_minute

(***************************************************************************)
(* MarketMakerBotV2: the decoder thread and the worker thread, one atomic  *)
(* access or one critical section per step.  Mids are in units of          *)
(* 0.0000025 as above.                                                     *)
(***************************************************************************)
\* book updates the decoder thread delivers
MaxMidUpdates == 2

\* the mids a book update may carry; 0 stands for a book with an empty side
UpdateMids == {0, 400000, 400003, 400010}

NTInit ==
    /\ mm_running_ = TRUE
    /\ decoder_pc = "idle"
    /\ updates = 0
    /\ book_mid = 0
    /\ time_of = 0
    /\ mid_now = 0
    /\ mid_of = 0
    /\ changed_flag = FALSE
    /\ last_notified = 0
    /\ notified_eval = 0
    /\ notified_at = "none"
    /\ main_pc = "l143"
    /\ loop_mid = 0
    /\ loop_mid_of = 0
    /\ passed_mid = 0
    /\ passed_mid_of = 0
    /\ passed_time_of = 0
    /\ evaluated_mid_of = 0
    /\ evaluations = 0

\* handle_orderbook_update lines 191-198: under orderbook_mutex_ the book and
\* its receive time are stored
store_book_and_time(m) ==
    /\ UNCHANGED notNtVars
    /\ decoder_pc = "idle"
    /\ updates < MaxMidUpdates
    /\ updates' = updates + 1
    /\ book_mid' = m
    /\ time_of' = updates + 1
    /\ decoder_pc' = "l201"
    /\ UNCHANGED <<mm_running_, mid_now, mid_of, changed_flag, last_notified,
                   notified_eval, notified_at, main_pc, loop_mid, loop_mid_of, passed_mid,
                   passed_mid_of, passed_time_of, evaluated_mid_of, evaluations>>

\* update_mid_price lines 205-211: the mid of the stored book replaces
\* current_mid_price_; nothing happens when a side is empty
exchange_mid ==
    /\ UNCHANGED notNtVars
    /\ decoder_pc = "l201"
    /\ IF book_mid = 0
          THEN /\ decoder_pc' = "idle"
               /\ UNCHANGED <<mid_now, mid_of>>
          ELSE /\ mid_now' = book_mid
               /\ mid_of' = updates
               /\ decoder_pc' = IF Abs(mid_now - book_mid) > PublishEpsilon
                                   THEN "l219" ELSE "idle"
    /\ UNCHANGED <<mm_running_, updates, book_mid, time_of, changed_flag,
                   last_notified, notified_eval, notified_at, main_pc, loop_mid, loop_mid_of,
                   passed_mid, passed_mid_of, passed_time_of, evaluated_mid_of,
                   evaluations>>

\* update_mid_price lines 219-220: price_changed_.store(true), notify_one
raise_notification ==
    /\ UNCHANGED notNtVars
    /\ decoder_pc = "l219"
    /\ decoder_pc' = "idle"
    /\ changed_flag' = TRUE
    /\ last_notified' = updates
    /\ notified_eval' = evaluations
    /\ notified_at' = main_pc
    /\ UNCHANGED <<mm_running_, updates, book_mid, time_of, mid_now, mid_of, main_pc,
                   loop_mid, loop_mid_of, passed_mid, passed_mid_of, passed_time_of,
                   evaluated_mid_of, evaluations>>

\* main_loop lines 143-151: wait_for returns (notification, or 10 ms), the
\* loop leaves when running_ is false
main_loop_wake ==
    /\ UNCHANGED notNtVars
    /\ main_pc = "l143"
    /\ main_pc' = IF mm_running_ THEN "l154" ELSE "exited"
    /\ UNCHANGED <<mm_running_, decoder_pc, updates, book_mid, time_of, mid_now,
                   mid_of, changed_flag, last_notified, notified_eval, notified_at,
                   loop_mid, loop_mid_of, passed_mid, passed_mid_of, passed_time_of,
                   evaluated_mid_of, evaluations>>

\* main_loop line 154: mid_price = current_mid_price_.load()
main_loop_load_mid ==
    /\ UNCHANGED notNtVars
    /\ main_pc = "l154"
    /\ main_pc' = "l156"
    /\ loop_mid' = mid_now
    /\ loop_mid_of' = mid_of
    /\ UNCHANGED <<mm_running_, decoder_pc, updates, book_mid, time_of, mid_now,
                   mid_of, changed_flag, last_notified, notified_eval, notified_at,
                   passed_mid, passed_mid_of, passed_time_of, evaluated_mid_of,
                   evaluations>>

\* main_loop line 156: mid_price > 0 && price_changed_.exchange(false)
main_loop_take_flag ==
    /\ UNCHANGED notNtVars
    /\ main_pc = "l156"
    /\ main_pc' = IF loop_mid > 0 /\ changed_flag THEN "l172" ELSE "l143"
    /\ changed_flag' = IF loop_mid > 0 THEN FALSE ELSE changed_flag
    /\ UNCHANGED <<mm_running_, decoder_pc, updates, book_mid, time_of, mid_now,
                   mid_of, last_notified, notified_eval, notified_at, loop_mid, loop_mid_of,
                   passed_mid, passed_mid_of, passed_time_of, evaluated_mid_of,
                   evaluations>>

\* check_and_update_orders, mutated: the mid main_loop loaded before it took
\* the flag is used
check_use_loop_mid ==
    /\ UNCHANGED notNtVars
    /\ main_pc = "l172"
    /\ main_pc' = "l181"
    /\ passed_mid' = loop_mid
    /\ passed_mid_of' = loop_mid_of
    /\ UNCHANGED <<mm_running_, decoder_pc, updates, book_mid, time_of, mid_now,
                   mid_of, changed_flag, last_notified, notified_eval, notified_at,
                   loop_mid, loop_mid_of, passed_time_of, evaluated_mid_of, evaluations>>

\* check_and_update_orders lines 172-176: mid_price = current_mid_price_.load(),
\* return when it is not positive
check_load_mid ==
    /\ UNCHANGED notNtVars
    /\ main_pc = "l172"
    /\ main_pc' = IF mid_now <= 0 THEN "l143" ELSE "l181"
    /\ passed_mid' = mid_now
    /\ passed_mid_of' = mid_of
    /\ UNCHANGED <<mm_running_, decoder_pc, updates, book_mid, time_of, mid_now,
                   mid_of, changed_flag, last_notified, notified_eval, notified_at,
                   loop_mid, loop_mid_of, passed_time_of, evaluated_mid_of, evaluations>>

\* check_and_update_orders lines 179-186: under orderbook_mutex_ the receive
\* time is read, then both are handed to update_orders_if_needed
check_read_time ==
    /\ UNCHANGED notNtVars
    /\ main_pc = "l181"
    /\ main_pc' = "l186"
    /\ passed_time_of' = time_of
    /\ evaluated_mid_of' = passed_mid_of
    /\ evaluations' = evaluations + 1
    /\ UNCHANGED <<mm_running_, decoder_pc, updates, book_mid, time_of, mid_now,
                   mid_of, changed_flag, last_notified, notified_eval, notified_at,
                   loop_mid, loop_mid_of, passed_mid, passed_mid_of>>

\* update_orders_if_needed returns to main_loop
cycle_returns ==
    /\ UNCHANGED notNtVars
    /\ main_pc = "l186"
    /\ main_pc' = "l143"
    /\ UNCHANGED <<mm_running_, decoder_pc, updates, book_mid, time_of, mid_now,
                   mid_of, changed_flag, last_notified, notified_eval, notified_at,
                   loop_mid, loop_mid_of, passed_mid, passed_mid_of, passed_time_of,
                   evaluated_mid_of, evaluations>>

\* MarketMakerBotV2::stop: running_ = false
bot_stop ==
    /\ UNCHANGED notNtVars
    /\ mm_running_
    /\ mm_running_' = FALSE
    /\ UNCHANGED <<decoder_pc, updates, book_mid, time_of, mid_now, mid_of,
                   changed_flag, last_notified, notified_eval, notified_at, main_pc,
                   loop_mid, loop_mid_of, passed_mid, passed_mid_of, passed_time_of,
                   evaluated_mid_of, evaluations>>

\* the steps of the worker thread
NTWorker ==
    \/ main_loop_wake
    \/ main_loop_load_mid
    \/ main_loop_take_flag
    \/ check_load_mid
    \/ check_read_time
    \/ cycle_returns

\* the steps of the decoder thread
NTDecoder ==
    \/ \E m \in UpdateMids : store_book_and_time(m)
    \/ exchange_mid
    \/ raise_notification

NTNext ==
    \/ NTDecoder
    \/ NTWorker
    \/ bot_stop

(***************************************************************************)
(* WebSocketClient::disconnect() called by the supervisor                  *)
(***************************************************************************)
\* MarketMakerBotV2::stop -> BinanceExchange::disconnect ->
\* WebSocketClient::disconnect: connected_ = false and the socket is closed;
\* should_run_ and auto_reconnect_ are left as they are
supervisor_disconnect ==
    /\ UNCHANGED notMdVars
    /\ process_state = "running"
    /\ md_connected_
    /\ losses < MaxLosses
    /\ Lose("supervisor")
    /\ UNCHANGED <<max_reconnect_attempts, reconnect_delay, worker_pc, heartbeat_pc,
                   reconnect_pc, attempts, slept, process_state>>

DCNext == MDNext \/ supervisor_disconnect

(***************************************************************************)
(* WebSocketClient::run_worker: the frame parser                           *)
(*                                                                         *)
(* Bytes are numbers 0..255.  buffer[i] of the code is At(buf, i + 1, g).  *)
(***************************************************************************)
\* text messages the server sends
MaxMessages == 2
\* their payloads: "a" and "ba"
MessagePayloads == {<<97>>, <<98, 97>>}
\* what a byte of buffer beyond the bytes of the current read may hold
StaleBytes == {0, 97}

FRInit ==
    /\ server_sent = <<>>
    /\ socket_bytes = <<>>
    /\ accumulated_data = <<>>
    /\ handled = <<>>

\* the frames of one text message: one final text frame (k = 0), or a text
\* frame with the first k bytes followed by a final continuation frame
FramesOf(msg, k) ==
    IF k = 0
       THEN <<129, Len(msg)>> \o msg
       ELSE <<1, k>> \o SubSeq(msg, 1, k) \o
            <<128, Len(msg) - k>> \o SubSeq(msg, k + 1, Len(msg))

\* the server sends a text message
server_sends(msg, k) ==
    /\ UNCHANGED notFrVars
    /\ Len(server_sent) < MaxMessages
    /\ server_sent' = Append(server_sent, msg)
    /\ socket_bytes' = socket_bytes \o FramesOf(msg, k)
    /\ UNCHANGED <<accumulated_data, handled>>

\* buffer[i - 1]: a byte of this read, or whatever the array held before
At(buf, i, g) == IF i <= Len(buf) THEN buf[i] ELSE g

\* the big-endian number in the n bytes that follow position pos
RECURSIVE BigEndian(_, _, _, _)
BigEndian(buf, pos, n, g) ==
    IF n = 0 THEN 0
    ELSE BigEndian(buf, pos, n - 1, g) * 256 + At(buf, pos + n, g)

\* lines 331-414: the loop over the frames of one SSL_read.  acc is
\* accumulated_data, out the messages handed to message_handler_ so far.
RECURSIVE parse_frames(_, _, _, _, _)
parse_frames(buf, pos, acc, out, g) ==
    LET bytes == Len(buf)
        stop == [acc |-> acc, out |-> out]
    IN
    IF ~(pos < bytes) THEN stop
    ELSE IF bytes - pos < 2 THEN stop
    ELSE
      LET fin == At(buf, pos + 1, g) \div 128
          opcode == At(buf, pos + 1, g) % 16
          masked == At(buf, pos + 2, g) \div 128
          len7 == At(buf, pos + 2, g) % 128
          p2 == pos + 2
      IN
      IF len7 = 126 /\ bytes - p2 < 2 THEN stop
      ELSE IF len7 = 127 /\ bytes - p2 < 8 THEN stop
      ELSE
        LET payload_len == IF len7 = 126 THEN BigEndian(buf, p2, 2, g)
                           ELSE IF len7 = 127 THEN BigEndian(buf, p2, 8, g)
                           ELSE len7
            p3 == p2 + (IF len7 = 126 THEN 2 ELSE IF len7 = 127 THEN 8 ELSE 0)
                     + (IF masked = 1 THEN 4 ELSE 0)
        IN
        \* static_cast<uint64_t>(bytes - pos) < payload_len: a negative
        \* difference is a huge unsigned number
        IF bytes - p3 >= 0 /\ bytes - p3 < payload_len THEN stop
        ELSE
          LET frame_payload == [i \in 1..payload_len |-> At(buf, p3 + i, g)]
              joined == (IF opcode = 1 THEN <<>> ELSE acc) \o frame_payload
          IN
          IF opcode = 1 \/ opcode = 0
             THEN IF fin = 1
                     THEN parse_frames(buf, p3 + payload_len, <<>>,
                                       IF joined # <<>> THEN Append(out, joined) ELSE out,
                                       g)
                     ELSE parse_frames(buf, p3 + payload_len, joined, out, g)
          ELSE IF opcode = 8
             THEN stop
          ELSE parse_frames(buf, p3 + payload_len, acc, out, g)

\* one iteration of run_worker's outer loop: SSL_read returns the next n
\* bytes of the stream and the frames in them are parsed
run_worker_read(n, g) ==
    /\ UNCHANGED notFrVars
    /\ n \in 1..Len(socket_bytes)
    /\ LET r == parse_frames(SubSeq(socket_bytes, 1, n), 0, accumulated_data, <<>>, g)
       IN  /\ accumulated_data' = r.acc
           /\ handled' = handled \o r.out
    /\ socket_bytes' = SubSeq(socket_bytes, n + 1, Len(socket_bytes))
    /\ UNCHANGED server_sent

\* the longest frame sequence in flight: messages of two frames, two
\* header bytes each, and two payload bytes
MaxSocketBytes == MaxMessages * (2 + 2 + 2)

FRNext ==
    \/ \E msg \in MessagePayloads, k \in 0..1 : server_sends(msg, k)
    \/ \E n \in 1..MaxSocketBytes, g \in StaleBytes : run_worker_read(n, g)

(***************************************************************************)
(* The price and quantity of a place request, from the adapter to the wire *)
(*                                                                         *)
(* Numbers are counted in units of 0.00000001.  A decimal string is the    *)
(* record [decimals, units]: units / 10^decimals.                          *)
(***************************************************************************)
\* decimals of the unit
WireUnitDecimals == 8
\* place requests checked
MaxWireOrders == 2
\* price decimals a symbol may declare (tickSize 0.01, 0.0001)
PricePrecisions == {2, 4}
\* quantity decimals a symbol may declare (stepSize 0.00001, 0.00000001)
QuantityPrecisions == {5, 8}
\* prices the manager hands over: 1.23, 1.2345, 1.2346, 9.87
WirePrices == {123000000, 123450000, 123460000, 987000000}
\* quantities the manager hands over: 0.001, 0.00123456
WireQuantities == {100000, 123456}

WireInit ==
    /\ symbol_price_precision = 0
    /\ symbol_quantity_precision = 0
    /\ formatted_price = 0
    /\ formatted_qty = 0
    /\ wire_price = [decimals |-> 0, units |-> 0]
    /\ wire_quantity = [decimals |-> 0, units |-> 0]
    /\ wire_orders = 0

\* get_symbol_info: the precisions of the symbol are read from the venue's
\* exchangeInfo and cached
get_symbol_info(pp, qp) ==
    /\ UNCHANGED notWireVars
    /\ adapter # "none"
    /\ symbol_price_precision = 0
    /\ symbol_price_precision' = pp
    /\ symbol_quantity_precision' = qp
    /\ UNCHANGED <<formatted_price, formatted_qty, wire_price, wire_quantity,
                   wire_orders>>

\* BinanceExchange::format_price / format_quantity:
\* std::round(v * 10^precision) / 10^precision
round_to_precision(v, precision) ==
    Round(v, Pow10(WireUnitDecimals - precision)) * Pow10(WireUnitDecimals - precision)

\* snprintf("%.Nf") and std::fixed << std::setprecision(N): the decimal
\* string with N decimals nearest to v; up says which way a value halfway
\* between two strings goes, which depends on the double that holds it
print_fixed(v, n, up) ==
    LET d == Pow10(WireUnitDecimals - n)
        q == v \div d
        r == v % d
    IN  [decimals |-> n,
         units |-> IF 2 * r > d \/ (2 * r = d /\ up) THEN q + 1 ELSE q]

\* the value a decimal string stands for, in units
WireValue(w) == w.units * Pow10(WireUnitDecimals - w.decimals)

\* RestClient::place_limit_order: "%.2f" for the price, "%.5f" for the
\* quantity
rest_price_decimals == 2
rest_quantity_decimals == 5
\* WebSocketTradingClient::format_price(price, precision = 2) and
\* format_quantity(quantity, precision = 5), called without a precision
ws_price_decimals == 2
ws_quantity_decimals == 5

\* the transport, mutated: it prints with the decimals the symbol declares
transport_keeps_precision(price, quantity, up) ==
    /\ wire_price' = print_fixed(price, symbol_price_precision, up)
    /\ wire_quantity' = print_fixed(quantity, symbol_quantity_precision, up)

\* rest_client.cpp lines 303-319 and websocket_trading_client.cpp lines
\* 502-508: the two numbers are printed into the request
transport_place_limit_order(price, quantity, up) ==
    IF adapter = "binance"
       THEN /\ wire_price' = print_fixed(price, rest_price_decimals, up)
            /\ wire_quantity' = print_fixed(quantity, rest_quantity_decimals, up)
       ELSE /\ wire_price' = print_fixed(price, ws_price_decimals, up)
            /\ wire_quantity' = print_fixed(quantity, ws_quantity_decimals, up)

\* place_limit_order of the adapter: BinanceExchange rounds both numbers to
\* the symbol's precision (lines 256-257) and calls the REST transport;
\* WebSocketTradingAdapter hands them to the trading client as they are
adapter_place_limit_order(price, quantity, up) ==
    /\ UNCHANGED notWireVars
    /\ adapter # "none"
    /\ symbol_price_precision # 0
    /\ wire_orders < MaxWireOrders
    /\ wire_orders' = wire_orders + 1
    /\ LET p == IF adapter = "binance"
                   THEN round_to_precision(price, symbol_price_precision)
                   ELSE price
           q == IF adapter = "binance"
                   THEN round_to_precision(quantity, symbol_quantity_precision)
                   ELSE quantity
       IN  /\ formatted_price' = p
           /\ formatted_qty' = q
           /\ transport_place_limit_order(p, q, up)
    /\ UNCHANGED <<symbol_price_precision, symbol_quantity_precision>>

WireNext ==
    \/ \E a \in Adapters : create_exchange(a)
    \/ \E pp \in PricePrecisions, qp \in QuantityPrecisions : get_symbol_info(pp, qp)
    \/ \E price \in WirePrices, quantity \in WireQuantities, up \in BOOLEAN :
          adapter_place_limit_order(price, quantity, up)

(***************************************************************************)
(* modify_order: cancel and replace                                        *)
(***************************************************************************)
\* modify_order calls checked
MaxModifies == 2
OrderSides == {"BUY", "SELL"}
\* what rest_client_->get_open_orders gives BinanceExchange::modify_order:
\* the order with its side, a list without the order, or no list
OpenOrdersOutcomes == {"found", "not_listed", "failed"}

ModInit ==
    /\ original_side = "none"
    /\ original_price = 0
    /\ side_lookup = "none"
    /\ replacement = [side |-> "none", price |-> 0]
    /\ modifies = 0

\* an order placed earlier rests at the venue
order_rests(side, price) ==
    /\ UNCHANGED notModVars
    /\ adapter # "none"
    /\ original_side = "none"
    /\ original_side' = side
    /\ original_price' = price
    /\ UNCHANGED <<side_lookup, replacement, modifies>>

\* BinanceExchange::modify_order lines 321-333: OrderSide side = BUY, replaced
\* by the side of the open order with this id when the list has one
binance_side(outcome) ==
    IF outcome = "found" THEN original_side ELSE "BUY"

\* WebSocketTradingAdapter::modify_order lines 266-268 and
\* RestClient::modify_order line 476: the side is the literal BUY
literal_side == "BUY"

\* modify_order(symbol, order_id, new_price, new_quantity) of the adapter:
\* the cancel is sent and the replacement is placed
modify_order(new_price, outcome) ==
    /\ UNCHANGED notModVars
    /\ adapter # "none"
    /\ original_side # "none"
    /\ modifies < MaxModifies
    /\ modifies' = modifies + 1
    /\ IF adapter = "binance"
          THEN /\ side_lookup' = outcome
               /\ replacement' = [side |-> binance_side(outcome), price |-> new_price]
          ELSE /\ side_lookup' = "no_lookup"
               /\ replacement' = [side |-> literal_side, price |-> new_price]
    /\ UNCHANGED <<original_side, original_price>>

ModNext ==
    \/ \E a \in Adapters : create_exchange(a)
    \/ \E side \in OrderSides, price \in WirePrices : order_rests(side, price)
    \/ \E price \in WirePrices, outcome \in OpenOrdersOutcomes :
          modify_order(price, outcome)

(***************************************************************************)
(* LatencyMetrics: the running averages                                    *)
(*                                                                         *)
(* Latencies are counted in microseconds; an average is the exact fraction *)
(* num / den, den > 0.                                                     *)
(***************************************************************************)
\* reprice cycles that record metrics
MaxMetricCycles == 3
\* execution latencies of a cycle
ExecutionLatencies == {1000, 2000}
\* reaction latencies of a cycle, none below the execution latency
ReactionLatencies == {2000, 3000, 5000}
\* double min_reaction_latency_ms = 999999.0
InitialMinLatency == 999999000

AvgInit ==
    /\ metrics_total_orders = 0
    /\ avg_order_latency_ms = [num |-> 0, den |-> 1]
    /\ avg_reaction_latency_ms = [num |-> 0, den |-> 1]
    /\ max_reaction_latency_ms = 0
    /\ min_reaction_latency_ms = InitialMinLatency
    /\ recorded_reactions = <<>>

\* (avg * n + latency) / (n + 1)
running_average(avg, n, latency) ==
    [num |-> avg.num * n + latency * avg.den, den |-> avg.den * (n + 1)]

MaxOfTwo(a, b) == IF a >= b THEN a ELSE b
MinOfTwo(a, b) == IF a <= b THEN a ELSE b

\* update_reaction_latency's average for a given value of total_orders
reaction_average(n, latency) ==
    IF n = 0
       THEN [num |-> latency, den |-> 1]
       ELSE running_average(avg_reaction_latency_ms, n, latency)

\* OrderManager::update_metrics lines 369-371: update_latency, which ends
\* with total_orders++, then update_reaction_latency, which reads
\* total_orders
record_metrics(execution, reaction) ==
    /\ UNCHANGED notAvgVars
    /\ metrics_total_orders < MaxMetricCycles
    /\ avg_order_latency_ms' =
           running_average(avg_order_latency_ms, metrics_total_orders, execution)
    /\ metrics_total_orders' = metrics_total_orders + 1
    /\ avg_reaction_latency_ms' = reaction_average(metrics_total_orders + 1, reaction)
    /\ max_reaction_latency_ms' = MaxOfTwo(max_reaction_latency_ms, reaction)
    /\ min_reaction_latency_ms' = MinOfTwo(min_reaction_latency_ms, reaction)
    /\ recorded_reactions' = Append(recorded_reactions, reaction)

\* OrderManager::reset_metrics: metrics_ = LatencyMetrics()
reset_metrics ==
    /\ UNCHANGED notAvgVars
    /\ metrics_total_orders > 0
    /\ metrics_total_orders' = 0
    /\ avg_order_latency_ms' = [num |-> 0, den |-> 1]
    /\ avg_reaction_latency_ms' = [num |-> 0, den |-> 1]
    /\ max_reaction_latency_ms' = 0
    /\ min_reaction_latency_ms' = InitialMinLatency
    /\ recorded_reactions' = <<>>

AvgNext ==
    \/ \E e \in ExecutionLatencies, r \in ReactionLatencies : record_metrics(e, r)
    \/ reset_metrics

Init == WSInit /\ OMInit /\ IDInit /\ QuoteInit /\ MMInit /\ RLInit /\ SPInit /\ MDInit /\ TRInit /\ SDInit /\ LatInit /\ BKInit /\ RCInit /\ NTInit /\ FRInit /\ WireInit /\ ModInit /\ AvgInit

SpecWS == Init /\ [][WSNext]_vars

SpecOM == Init /\ [][OMNext]_vars

SpecID == Init /\ [][IDNext]_vars

SpecQuote == Init /\ [][QuoteNext]_vars

SpecMM == Init /\ [][MMNext]_vars

SpecRL == Init /\ [][RLNext]_vars

SpecSP == Init /\ [][SPNext]_vars

SpecMD == Init /\ [][MDNext]_vars

\* every thread of the transport that can take a step eventually takes one,
\* and a connect() call returns
SpecMDLive == SpecMD /\ WF_vars(MDThreads) /\ WF_vars(MDConnects)

SpecTR == Init /\ [][TRNext]_vars

\* the reconnect thread runs, and the venue accepts a pending connection
SpecTRLive == SpecTR /\ WF_vars(TRThread) /\ WF_vars(on_open)

SpecSD == Init /\ [][SDNext]_vars

SpecLat == Init /\ [][LatNext]_vars

SpecBK == Init /\ [][BKNext]_vars

SpecRC == Init /\ [][RCNext]_vars

SpecNT == Init /\ [][NTNext]_vars

\* the worker thread is scheduled again and again, its wait_for returns
\* after 10 ms at the latest, and update_orders_if_needed returns
SpecNTLive == SpecNT /\ WF_vars(NTWorker)

SpecDC == Init /\ [][DCNext]_vars

SpecFR == Init /\ [][FRNext]_vars

SpecWire == Init /\ [][WireNext]_vars

SpecMod == Init /\ [][ModNext]_vars

SpecAvg == Init /\ [][AvgNext]_vars

(***************************************************************************)
(* Claims about the trading client                                         *)
(***************************************************************************)
\* the session was started and disconnect() has swept the table
Swept == sess # "none" /\ ~running_ /\ dpc \in {"l191", "idle"}
\* the session was started and disconnect() has returned
DisconnectReturned == sess # "none" /\ ~running_ /\ dpc = "idle"

\* C1: the result slot of every pending request is completed at most once,
\* whatever the interleaving of the response, the caller's timeout and the
\* disconnect sweep; a caller that returns a value returns the one its slot
\* was completed with, and otherwise returns no value (timeout, send failure).
C1_CompletedAtMostOnce ==
    /\ \A i \in Ids : set_calls[i] <= 1
    /\ \A i \in Ids : (promise[i] = "unset") <=> (set_calls[i] = 0)
    /\ \A c \in Callers :
          (cpc[c] = "done" /\ rid[c] # 0) =>
             /\ ret[c] \in {"response", "closed", "timeout", "send_failed"}
             /\ (ret[c] \in {"response", "closed"} => promise[rid[c]] = ret[c])

\* C1 witness: a caller timed out while its slot was being completed by the
\* other side (a response or the sweep): both happened, the slot was set once.
C1_Witness ==
    \E c \in Callers :
       /\ cpc[c] = "done" /\ ret[c] = "timeout"
       /\ set_calls[rid[c]] = 1
       /\ \E d \in Callers : cpc[d] = "done" /\ ret[d] = "closed"

\* C2: after disconnect() has returned on a started session the pending table
\* is empty and no caller is still waiting on an uncompleted slot.
C2_EmptyAfterDisconnect ==
    DisconnectReturned =>
       /\ pending_requests_ = {}
       /\ \A c \in Callers : cpc[c] = "l445" => promise[rid[c]] # "unset"

\* C3: once the session-close sweep has run, no entry is inserted into the
\* pending table.
C3_NoInsertAfterSweep ==
    [][Swept => pending_requests_' \subseteq pending_requests_]_vars

\* C4: once the stream has been closed or has failed from the remote side, no
\* caller is left waiting on an uncompleted slot: each waiting request was
\* completed with the closed-session error at that event.
C4_CompletedAtRemoteClose ==
    sess \in {"closed", "failed"} =>
       \A c \in Callers : cpc[c] = "l445" => promise[rid[c]] = "closed"

\* request i was evicted by its caller's timeout before any completion
TimedOut(i) == ~waiting[i] /\ promise[i] = "unset"

\* C5: a call that returns by timeout has removed its entry from the pending
\* table, and a response for a timed-out request that arrives afterwards
\* completes no slot and leaves the pending table unchanged.
C5_TimeoutEvicts ==
    /\ [](\A c \in Callers :
            (cpc[c] = "done" /\ ret[c] = "timeout") =>
               (rid[c] \notin pending_requests_ /\ ~waiting[rid[c]]))
    /\ [][\A i \in Ids :
            (i \in wire /\ i \notin wire' /\ TimedOut(i)) =>
               UNCHANGED <<promise, set_calls, pending_requests_, waiting>>]_vars

\* C5 witness: a call returned by timeout and the venue's response for it was
\* delivered afterwards (it is no longer in flight, the slot is still unset).
C5_Witness ==
    \E c \in Callers :
       /\ cpc[c] = "done" /\ ret[c] = "timeout"
       /\ rid[c] \notin wire
       /\ promise[rid[c]] = "unset"

(***************************************************************************)
(* Claims about the order manager                                          *)
(***************************************************************************)
BothActive == active_order["bid"] # 0 /\ active_order["ask"] # 0
NoneActive == active_order["bid"] = 0 /\ active_order["ask"] = 0
\* the worker leaves the gates of the current update in this step
GateStep == wpc = "l246" /\ wpc' # "l246"
\* a cancel/place sequence starts in this step
SequenceStarts == GateStep /\ wpc' \in {"l127", "l163"}
\* the manager has tried to cancel the order it holds in leg s
CancelTried(s) ==
    \/ active_order[s] \in cancel_requests
    \/ order_to_cancel[s] = active_order[s] /\ cancel_task[s] # "none"

\* C6: the manager never drops its reference to a resting order without
\* trying to cancel it: when an active leg is replaced or emptied, a cancel
\* for the order it held has been launched before.
C6_CancelBeforeReplace ==
    [][\A s \in Sides :
          (active_order[s] # 0 /\ active_order'[s] # active_order[s]) => CancelTried(s)]_vars

\* the relative change of the mid is below delta = 1e-4
BelowDelta(m) == Abs(m - last_mid_price_) * ThresholdInv < last_mid_price_

\* C7: with both legs active, an update whose mid differs from
\* last_mid_price_ by less than delta (an identical mid included) returns
\* without a cancel or place request and leaves the active pair,
\* last_mid_price_, last_order_update_ and the metrics unchanged.
C7_HysteresisNoOp ==
    [][(GateStep /\ BothActive /\ BelowDelta(new_mid_price)) =>
          /\ wpc' = "idle"
          /\ UNCHANGED <<active_order, last_mid_price_, last_order_update_,
                         failed_orders, successful_orders, total_orders,
                         cancel_requests, cancel_task, place_thread, next_order_id>>]_vars

\* C7 witness: with both legs active and the cooldown elapsed, an update with
\* a different mid below delta has been evaluated and nothing was started.
C7_Witness ==
    /\ wpc = "idle" /\ BothActive
    /\ new_mid_price # last_mid_price_
    /\ BelowDelta(new_mid_price)
    /\ delivered_at - last_order_update_ >= order_update_cooldown

\* C8: with an active pair resting, an update delivered less than
\* T_cooldown after the update that started the previous cancel/place
\* sequence starts no sequence.
C8_CooldownOneSequence ==
    [][(SequenceStarts /\ BothActive /\ triggered_at >= 0) =>
          delivered_at' - triggered_at >= order_update_cooldown]_vars

\* C8 witness: with both legs active, an update carrying a significant price
\* change was delivered within the cooldown of the triggering one and was
\* suppressed.
C8_Witness ==
    /\ wpc = "idle" /\ BothActive
    /\ price_change_significant(new_mid_price)
    /\ triggered_at >= 0
    /\ delivered_at > triggered_at
    /\ delivered_at - triggered_at < order_update_cooldown

\* C9: a price change delivered while no leg is active is not suppressed by
\* the cooldown: it goes on to place a new pair.
C9_NoCooldownWithoutPair ==
    [][(GateStep /\ NoneActive /\ Abs(new_mid_price - last_mid_price_) >= 1) =>
          wpc' = "l163"]_vars

\* C10: in a cycle that found a pair, a place request is issued only after
\* both cancel waits have ended (ready or timeout) and the old pair has been
\* cleared; both cancels are launched before the first wait starts and both
\* place threads before the join.
C10_CancelThenPlace ==
    /\ [](wpc \in {"l137", "l143"} => \A s \in Sides : cancel_task[s] # "none")
    /\ [](wpc = "l180" => \A s \in Sides : place_thread[s] # "none")
    /\ [][\A s \in Sides :
            (/\ place_thread[s] = "spawned" /\ place_thread'[s] = "calling"
             /\ \A t \in Sides : order_to_cancel[t] # 0) =>
               \A t \in Sides : /\ cancel_wait[t] # "none"
                                /\ active_order[t] # order_to_cancel[t]]_vars

\* C10 witness: in a cycle that found a pair and whose bid cancel wait timed
\* out, both place requests are in flight at once.
C10_Witness ==
    /\ \A s \in Sides : order_to_cancel[s] # 0
    /\ \A s \in Sides : place_thread[s] = "calling"
    /\ cancel_wait["bid"] = "timeout"

\* the place thread of side s returns from place_order in this step
PlaceReturns(s) == place_thread[s] = "calling" /\ place_thread'[s] = "done"

\* C11: when the place of a side returns in a reprice cycle, either the
\* venue accepted it and the active leg of that side is the returned order,
\* or it failed, failed_orders has grown by exactly one and the active leg
\* of that side is empty (it does not keep an older order).
C11_PlaceOutcomeSetsLeg ==
    [][\A s \in Sides :
          PlaceReturns(s) =>
             IF success'[s]
                THEN /\ active_order'[s] = next_order_id
                     /\ failed_orders' = failed_orders
                ELSE /\ failed_orders' = failed_orders + 1
                     /\ active_order'[s] = 0]_vars

\* C12: after cancel_all() has returned both active legs are empty, whatever
\* the individual cancels returned, and a cancel request has been issued for
\* each leg that existed when it was called (and for no other leg).
C12_CancelAllClearsPair ==
    /\ [](wpc = "destroyed" =>
            \A s \in Sides :
               /\ active_order[s] = 0
               /\ order_to_cancel[s] # 0 => order_to_cancel[s] \in cancel_requests)
    /\ [][wpc = "l231" =>
            cancel_requests' \subseteq
               cancel_requests \cup ({order_to_cancel[s] : s \in Sides} \ {0})]_vars

\* C12 witness: cancel_all() has returned after a failed cancel, called
\* with the bid leg resting and the ask leg empty.
C12_Witness ==
    /\ wpc = "destroyed"
    /\ cancel_all_ret = FALSE
    /\ order_to_cancel["bid"] # 0 /\ order_to_cancel["ask"] = 0

\* C13: whenever the manager is between cycles, successful_orders +
\* failed_orders (the manager has no validation-rejected counter) equals the
\* number of place attempts made, two for every cycle that reached the
\* place step.
C13_MetricsAddUp ==
    wpc = "idle" => successful_orders + failed_orders = 2 * total_orders

\* the callers that hold a request id of their current call
InCall == {c \in Callers : cpc[c] \in {"l419", "l429", "l445", "l450"}}

\* C15: any two requests created by the client carry different ids, also
\* when several threads create them at once: an id that is handed out was
\* never handed out before, two calls in progress never share an id, and the
\* insert into the pending table never overwrites an entry.
C15_RequestIdsDistinct ==
    /\ [](\A c, d \in InCall : c # d => rid[c] # rid[d])
    /\ [][\A c \in Callers :
            (cpc[c] = "l410" /\ cpc'[c] = "l419") => rid'[c] >= request_id_counter_]_vars
    /\ [][\A c \in Callers :
            (cpc[c] = "l419" /\ cpc'[c] = "l429") => rid[c] \notin pending_requests_]_vars

\* C15 witness: two threads have created their requests at the same time:
\* both hold an id and neither has stored its entry yet.
C15_Witness ==
    /\ \A c \in Callers : cpc[c] = "l419"
    /\ rid["t1"] > rid["t2"]

(***************************************************************************)
(* Claims about the client order ids                                       *)
(***************************************************************************)
\* C14: any two client_order_ids generated in one session are different:
\* the two generated concurrently by the bid and the ask thread, and two
\* generated for the same side at the same clock reading.
C14_ClientOrderIdsDistinct ==
    \A i, j \in 1..Len(client_order_ids) :
       i # j => client_order_ids[i] # client_order_ids[j]

(***************************************************************************)
(* Claims about the quoted prices                                          *)
(***************************************************************************)
\* p is the multiple of the tick nearest to raw
RoundedToTick(p, raw) ==
    p % UnitsPerTick = 0 /\ 2 * Abs(p - raw) <= UnitsPerTick

\* C16: for every mid M > 0 and every configured spread s, the prices of a
\* reprice are M(1-s) and M(1+s) rounded to the tick, both are multiples of
\* the tick, and bid < ask, also for a mid of only a few ticks.
C16_RoundedAndOrdered ==
    quote_pc = "l163" =>
       /\ RoundedToTick(bid_price, (mid_price \div UnitsPerTick) * (100 - spread_percentage))
       /\ RoundedToTick(ask_price, (mid_price \div UnitsPerTick) * (100 + spread_percentage))
       /\ bid_price < ask_price

\* C17: no place request reaches the exchange for a leg that fails the
\* pre-issue validation: whenever a place call is made, the pair of the
\* current call passes validate_market_maker_orders.
C17_NoPlaceWithoutValidation ==
    [][placed' # placed /\ placed' # {} =>
          validate_market_maker_orders(bid_price, ask_price, order_size, mid_price)]_vars

(***************************************************************************)
(* Claims about the market data path                                       *)
(***************************************************************************)
\* a book update is received in this step
BookUpdate == book_updates' = book_updates + 1
\* the book has a level on both sides and its best bid is not below its
\* best ask
Crossed(book) ==
    /\ book.bids # <<>> /\ book.asks # <<>>
    /\ book.bids[1] >= book.asks[1]

\* C18: a book update whose best bid is greater than or equal to its best
\* ask emits no price-change notification and leaves the mid that drives
\* the reprice as it was.
C18_CrossedBookIgnored ==
    [][(BookUpdate /\ Crossed(current_orderbook_')) =>
          /\ ~notified'
          /\ UNCHANGED <<current_mid_price_, price_changed_>>]_vars

\* C19: a price-change notification is emitted only when the new mid
\* differs by more than epsilon_publish from the mid carried by the most
\* recent notification emitted before.
C19_NotifyAgainstPublished ==
    [][(BookUpdate /\ notified') =>
          Abs(current_mid_price_' - published_mid) > PublishEpsilon]_vars

(***************************************************************************)
(* Claims about the rate limiter                                           *)
(***************************************************************************)
\* C20: can_request admits a request exactly when fewer than
\* max_per_second requests and fewer than burst_size requests have been
\* recorded within the last second; requests recorded more than one second
\* ago never cause a refusal.
C20_AdmitByLastSecond ==
    [][(rl_pc = "idle" /\ rl_pc' = "l30") =>
          (admitted' <=>
              /\ recent_requests(request_times_, rl_now) < max_requests_per_second_
              /\ recent_requests(request_times_, rl_now) < burst_size_)]_vars

(***************************************************************************)
(* Claims about the exchange adapters                                      *)
(***************************************************************************)
\* C21: for every adapter, any two network calls of signed order operations
\* (place, cancel, cancel-all, each request of a modify) start at least
\* 1000 / max_requests_per_second ms apart, also when the operations come
\* from parallel threads.
C21_SignedCallsSpaced ==
    \A i, j \in DOMAIN call_starts :
        i < j => call_starts[j].at - call_starts[i].at >= min_interval_ms

(***************************************************************************)
(* Claims about the market-data transport                                  *)
(***************************************************************************)
\* the connection is lost and the process goes on
Lost == process_state = "running" /\ loss # "none" /\ ~md_connected_
\* a reconnect attempt has been made since the latest loss, or the
\* connection is back
ReconnectAttempted == connect_attempts > 0 \/ md_connected_

\* C22: with auto-reconnect enabled and the transport running, every loss of
\* the market-data connection (close frame, end of stream, read error, idle
\* timeout) is eventually followed by a reconnect attempt to the stream URI.
C22_LossLeadsToReconnect ==
    (Lost /\ connect_attempts = 0) ~> (ReconnectAttempted \/ process_state # "running")

\* C23: after a disconnect the transport makes at most the configured
\* max_reconnect_attempts attempts, each preceded by the configured
\* reconnect delay.
C23_AttemptsBoundedByConfig ==
    process_state # "start" =>
        /\ connect_attempts <= max_reconnect_attempts
        /\ (reconnect_pc = "l472" => slept = reconnect_delay)

\* all the attempts of the reconnect thread have failed
Exhausted ==
    /\ ~md_connected_
    /\ reconnect_pc \in {"l478", "exited"}
    /\ attempts >= max_attempts

\* C24: when all reconnect attempts have failed the failure is fatal: the
\* process terminates instead of running on without market data.
C24_ExhaustionIsFatal == Exhausted ~> (process_state = "terminated")

(***************************************************************************)
(* Claims about the trading client's reconnection                          *)
(***************************************************************************)
\* C25: after the trading stream is lost while auto-reconnect is enabled
\* (connect() has returned true and started the reconnect thread), the
\* client is running and the venue is reachable, the client eventually
\* becomes connected again, so later requests are sent instead of being
\* refused as not connected.
C25_TradingStreamReconnects ==
    (running_ /\ sess = "closed" /\ reconnect_thread_ # "none")
        ~> (connected_ \/ ~running_)

(***************************************************************************)
(* Claims about the supervisor's shutdown                                  *)
(***************************************************************************)
\* C26: on shutdown a cancel request is sent to the venue for every leg the
\* manager still believes resting, with the stream adapter as well as with
\* the HTTP adapter.
C26_ShutdownCancelsResting ==
    [][(exit_state = "running" /\ exit_state' = "exited") =>
          believed_resting \subseteq cancels_sent']_vars

\* C27: every call of stop(), from the signal handler, from main or
\* repeated, returns, and when it has returned running is false and the
\* worker has ended.
C27_StopJoinsWorker ==
    \A t \in Stoppers :
        /\ stop_pc[t] # "threw"
        /\ stop_pc[t] = "returned" => (~bot_running_ /\ bot_worker = "exited")

(***************************************************************************)
(* Claims about the latency metrics                                        *)
(***************************************************************************)
\* C28: for every reprice cycle that records metrics, the recorded reaction
\* latency is at least the recorded execution latency: the book's receive
\* time handed to the manager is never later than the start of the cycle.
C28_ReactionAtLeastExecution ==
    /\ lat_pc = "l30" => orderbook_time <= start_time
    /\ lat_cycles > 0 => reaction_latency_us >= execution_latency_us

\* a cycle recorded a reaction latency strictly above its execution
\* latency, for a book that arrived while an earlier cycle was under way
C28_Witness ==
    /\ lat_cycles > 1
    /\ reaction_latency_us > execution_latency_us
    /\ execution_latency_us > 0

(***************************************************************************)
(* Claims about the order books handed to the supervisor                   *)
(***************************************************************************)
IsDescending(s) == \A i \in 1..(Len(s) - 1) : s[i] >= s[i + 1]
IsAscending(s) == \A i \in 1..(Len(s) - 1) : s[i] <= s[i + 1]
Prices(s) == {s[i] : i \in DOMAIN s}
MaxOf(S) == CHOOSE x \in S : \A y \in S : y <= x
MinOf(S) == CHOOSE x \in S : \A y \in S : y >= x

\* C29: every order book handed to the order-book handler, by either
\* adapter, has its bids in descending and its asks in ascending price
\* order whatever the order of the levels in the payload, so that the mid is
\* computed from the highest bid and the lowest ask of the payload.
C29_HandedBookSorted ==
    /\ IsDescending(handed_orderbook.bids)
    /\ IsAscending(handed_orderbook.asks)
    /\ (payload.bids # <<>> /\ payload.asks # <<>>) =>
          handed_mid2 = MaxOf(Prices(payload.bids)) + MinOf(Prices(payload.asks))

(***************************************************************************)
(* Claims about the cancel timeout                                         *)
(***************************************************************************)
\* C30: a cancel whose wait exceeded T_cancel only detaches the caller: once
\* the pair is cleared the cycle goes on to the place requests whether or
\* not the timed-out cancel call has returned.
C30_TimeoutDetachesCaller ==
    (wpc = "l155" /\ \E s \in Sides : cancel_wait[s] = "timeout") =>
        ENABLED cancel_futures_destroyed

(***************************************************************************)
(* Claims about the active-pair lock                                       *)
(***************************************************************************)
\* orders_mutex_ is taken by a lock_guard for the whole body of
\* cancel_all_active_orders (line 210): it is held from the launch of the
\* cancel tasks until the pair has been reset.  In a reprice cycle it is
\* held only inside the steps that copy, clear or store the pair, each of
\* which is one action here and makes no exchange call.
orders_mutex_held == wpc \in {"l231", "l235"}

\* a cancel or place call to the exchange has been issued and has not returned
exchange_call_in_progress ==
    \E s \in Sides : cancel_task[s] = "calling" \/ place_thread[s] = "calling"

\* C31: the manager never holds the active-pair lock while a cancel or place
\* call to the exchange is in progress, so get_active_orders() never waits
\* for a network call.
C31_NoLockAcrossExchangeCall ==
    ~(orders_mutex_held /\ exchange_call_in_progress)

(***************************************************************************)
(* Claims about a bucket shared by several threads                         *)
(***************************************************************************)
\* the requests recorded in the one-second window that ends at time t
recorded_in_window(t) ==
    Cardinality({i \in 1..Len(request_times_) :
                    request_times_[i] > t - OneSecondMs /\ request_times_[i] <= t})

\* C32: with several threads each calling the admit test and then recording
\* when admitted, no one-second window holds more than max_per_second
\* recorded requests.
C32_WindowNeverExceedsMax ==
    \A i \in 1..Len(request_times_) :
        recorded_in_window(request_times_[i]) <= max_requests_per_second_

(***************************************************************************)
(* Claims about recovery from a failed place                               *)
(***************************************************************************)
\* a cycle has completed, a leg is empty (its place failed), and the
\* cooldown since that cycle has elapsed
leg_empty_after_cooldown ==
    /\ total_orders > 0
    /\ \E s \in Sides : active_order[s] = 0
    /\ ~(now - last_order_update_ < order_update_cooldown)

\* C33: when a cycle has left a leg empty because its place failed, a
\* price-change notification delivered after the cooldown leads to a new
\* place attempt, whatever mid it carries: the evaluation of the notified
\* mid does not return the worker to idle without a cycle.
C33_EmptyLegIsPlacedAgain ==
    [][(wpc = "l246" /\ leg_empty_after_cooldown) => wpc' # "idle"]_vars

(***************************************************************************)
(* Claims about the decoder thread and the worker thread                   *)
(***************************************************************************)
\* C34: the mid and the receive time handed together to the manager come
\* from the same book update.
C34_MidAndTimeOfOneUpdate ==
    main_pc = "l186" => evaluated_mid_of = passed_time_of

\* C35: while the supervisor is running, every price-change notification is
\* eventually followed by a reprice evaluation that uses a mid at least as
\* recent as the notified one, wherever the worker was when the notification
\* was raised.
C35_NotificationNotLost ==
    \A k \in 1..MaxMidUpdates :
        (last_notified = k) ~>
            ((evaluations > notified_eval /\ evaluated_mid_of >= k) \/ ~mm_running_)

\* a notification raised while a cycle was in progress has been followed by
\* an evaluation of a mid at least as recent
C35_Witness ==
    /\ notified_at = "l186"
    /\ last_notified > 0
    /\ evaluations > notified_eval
    /\ evaluated_mid_of >= last_notified

(***************************************************************************)
(* Claims about a deliberate disconnect of the market-data transport       *)
(***************************************************************************)
\* C36: after the supervisor's disconnect() the transport stays
\* disconnected: no connect() is attempted for it and no worker thread reads
\* the stream again.
C36_DisconnectIsFinal ==
    loss = "supervisor" => (~md_connected_ /\ connect_attempts = 0)

(***************************************************************************)
(* Claims about the frames of the market-data stream                       *)
(***************************************************************************)
IsPrefix(s, t) == Len(s) <= Len(t) /\ SubSeq(t, 1, Len(s)) = s

\* C37: every text message the server sends is handed to the message
\* handler exactly once, complete and in order, however it is framed and
\* however its bytes are split across reads: what was handled is always a
\* prefix of what was sent, and all of it once every byte has been read.
C37_MessagesDeliveredOnce ==
    /\ IsPrefix(handled, server_sent)
    /\ socket_bytes = <<>> => handled = server_sent

(***************************************************************************)
(* Claims about the numbers on the wire                                    *)
(***************************************************************************)
\* C38: the price and quantity strings sent to the venue stand for exactly
\* the values the adapter rounded to the symbol's declared precision.
C38_WireKeepsRoundedValues ==
    wire_orders > 0 =>
        /\ WireValue(wire_price) = formatted_price
        /\ WireValue(wire_quantity) = formatted_qty

(***************************************************************************)
(* Claims about modify                                                     *)
(***************************************************************************)
\* C39: the replacement order placed by modify has the side of the order it
\* replaces, in every adapter; when that side could not be determined,
\* modify places no order.
C39_ReplacementKeepsSide ==
    modifies > 0 =>
        IF side_lookup = "found"
           THEN replacement.side \in {original_side, "none"}
           ELSE replacement.side = "none"

(***************************************************************************)
(* Claims about the latency averages                                       *)
(***************************************************************************)
RECURSIVE SumOf(_)
SumOf(s) == IF s = <<>> THEN 0 ELSE Head(s) + SumOf(Tail(s))

\* C40: after any number of reprice cycles avg_reaction_latency is the
\* arithmetic mean of the recorded reaction latencies and lies between
\* min_reaction_latency and max_reaction_latency.
C40_AverageIsMean ==
    recorded_reactions # <<>> =>
        /\ avg_reaction_latency_ms.num * Len(recorded_reactions) =
               SumOf(recorded_reactions) * avg_reaction_latency_ms.den
        /\ min_reaction_latency_ms * avg_reaction_latency_ms.den
               <= avg_reaction_latency_ms.num
        /\ avg_reaction_latency_ms.num
               <= max_reaction_latency_ms * avg_reaction_latency_ms.den
====
